---- MODULE Spec2Model ----
(***************************************************************************)
(* dynago: the process (main/run), configuration loading, registry         *)
(* construction and the update loop of DNSUpdateService.Start, together    *)
(* with the Cloudflare and Route53 adapters and the IP source client.      *)
(*                                                                         *)
(* The loop is modelled one blocking call per step (select, GetCurrentIP,  *)
(* GetRecordIP, UpdateRecordIP), so that the timer, the signal goroutine   *)
(* and changes made at the vendors interleave with a running pass.         *)
(***************************************************************************)
EXTENDS Integers, Sequences, FiniteSets, TLC

\* ------------------------------------------------------------------ bounds
\* Cap on the number of times the ticker fires in one run.
MaxFires == 3

\* ------------------------------------------------------- values and inputs
ProviderNames == {"cloudflare", "route53"}

\* Addresses the IP source and the DNS records can hold.
IPs == {"1.2.3.4", "5.6.7.8"}

\* No record with the configured name and type exists at the vendor.
NoRecord == "none"

\* http.StatusOK
StatusOK == 200

\* Shapes of the blob under providers.<name> in the YAML document:
\*   missing      the key is not in the providers mapping
\*   undecodable  the blob does not decode into the typed configuration
\*   noflag       decodes, no enabled key (Enabled keeps its zero value)
\*   disabled     enabled: false
\*   enabled      enabled: true
BlobKinds == {"missing", "undecodable", "noflag", "disabled", "enabled"}

\* The config file on disk: whether it can be read, whether it is YAML, and
\* the interval string in it.
FileStates == {"unreadable", "badyaml", "ok"}

IntervalStrings == {"5m", "0s", "-1s", "soon"}

\* The -log flag: empty (discard), a path that can be opened, one that cannot.
LogFiles == {"", "dynago.log", "/nodir/dynago.log"}

\* Answers of the IP source to one HTTP GET.
Responses ==
    {[getErr |-> TRUE, status |-> 0, body |-> "", readErr |-> FALSE]} \cup
    [getErr : {FALSE}, status : {StatusOK, 500}, body : IPs, readErr : BOOLEAN]

\* --------------------------------------------------- configuration loading
\* time.ParseDuration on the interval string: seconds, or an error.
ParseDuration(s) ==
    CASE s = "5m"  -> [err |-> FALSE, d |-> 300]
      [] s = "0s"  -> [err |-> FALSE, d |-> 0]
      [] s = "-1s" -> [err |-> FALSE, d |-> -1]
      [] OTHER     -> [err |-> TRUE,  d |-> 0]

NilCfg == [nil |-> TRUE, Interval |-> 0, Providers |-> [p \in ProviderNames |-> "missing"]]

\* config.LoadConfig: ReadFile, yaml.Unmarshal, ParseDuration, in that order.
LoadConfig(fileState, intervalStr, blobs) ==
    IF fileState = "unreadable" THEN [err |-> TRUE, cfg |-> NilCfg]
    ELSE IF fileState = "badyaml" THEN [err |-> TRUE, cfg |-> NilCfg]
    ELSE IF ParseDuration(intervalStr).err THEN [err |-> TRUE, cfg |-> NilCfg]
    ELSE [err |-> FALSE,
          cfg |-> [nil |-> FALSE, Interval |-> ParseDuration(intervalStr).d,
                   Providers |-> blobs]]

\* logger.InitLogger: fails only when the log file cannot be opened.
InitLogger(logFile) ==
    IF logFile # "" /\ logFile = "/nodir/dynago.log" THEN [err |-> TRUE]
    ELSE [err |-> FALSE]

\* Variant: a blob that cannot be decoded yields an enabled configuration.
ConfigFromMapLenient(blob) ==
    IF blob = "undecodable" THEN [err |-> FALSE, Enabled |-> TRUE]
    ELSE [err |-> FALSE, Enabled |-> (blob = "enabled")]

\* config.ConfigFromMap into the typed provider configuration.
ConfigFromMap(blob) ==
    IF blob = "undecodable" THEN [err |-> TRUE, Enabled |-> FALSE]
    ELSE [err |-> FALSE, Enabled |-> (blob = "enabled")]

\* cfprovider.New / r53provider.New
New(raw) ==
    LET c == ConfigFromMap(raw)
    IN  IF c.err THEN [err |-> TRUE, Enabled |-> FALSE]
        ELSE [err |-> FALSE, Enabled |-> c.Enabled]

\* Variant: a provider is appended whenever its blob decodes, enabled or not.
AppendIfPresent(list, providers, name) ==
    IF providers[name] # "missing"
    THEN IF ~New(providers[name]).err
         THEN Append(list, name)
         ELSE list
    ELSE list

\* One of the two blocks of Start that look a provider up in cfg.Providers
\* and append it to providersList.
AppendIfEnabled(list, providers, name) ==
    IF providers[name] # "missing"
    THEN IF ~New(providers[name]).err /\ New(providers[name]).Enabled
         THEN Append(list, name)
         ELSE list
    ELSE list

\* providersList as Start builds it: cloudflare first, then route53.
BuildProvidersList(providers) ==
    AppendIfEnabled(AppendIfEnabled(<<>>, providers, "cloudflare"), providers, "route53")

\* Variant: an empty list is accepted.
NewDNSProviderRegistryNoCheck(list) ==
    [err |-> FALSE, Providers |-> list]

\* providers.NewDNSProviderRegistry
NewDNSProviderRegistry(list) ==
    IF Len(list) = 0 THEN [err |-> TRUE, Providers |-> <<>>]
    ELSE [err |-> FALSE, Providers |-> list]

\* Variant: main returns normally whatever run returned.
MainExitCodeZero(runErr) ==
    0

\* main: the exit status for the value run() returned.
MainExitCode(runErr) ==
    IF runErr # "nil" THEN 1 ELSE 0

\* ------------------------------------------------------------- IP source
\* Variant: the status of the response is not looked at.
GetCurrentIPAnyStatus(resp) ==
    IF resp.getErr THEN [ip |-> "", err |-> TRUE]
    ELSE IF resp.readErr THEN [ip |-> "", err |-> TRUE]
    ELSE [ip |-> resp.body, err |-> FALSE]

\* utils.GetCurrentIP on one response of the IP source.
GetCurrentIP(resp) ==
    IF resp.getErr THEN [ip |-> "", err |-> TRUE]
    ELSE IF resp.status # StatusOK THEN [ip |-> "", err |-> TRUE]
    ELSE IF resp.readErr THEN [ip |-> "", err |-> TRUE]
    ELSE [ip |-> resp.body, err |-> FALSE]

\* ---------------------------------------------------------------- adapters
\* Variant: a client is created for every call and put in the cache.
getClientEveryCall(client, createOk) ==
    IF createOk THEN [client |-> TRUE, err |-> FALSE]
    ELSE [client |-> FALSE, err |-> TRUE]

\* getClient of either adapter: the cached client, or a new one when the
\* vendor SDK can create it.  client is TRUE when the cache is set.
getClient(client, createOk) ==
    IF client THEN [client |-> TRUE, err |-> FALSE]
    ELSE IF ~createOk THEN [client |-> FALSE, err |-> TRUE]
    ELSE [client |-> TRUE, err |-> FALSE]

\* CloudflareProvider.GetRecordIP.  rec is the content of the record with
\* the configured name and type, or NoRecord.
CFGetRecordIP(client, rec, createOk, listOk) ==
    LET c == getClient(client, createOk)
    IN  IF c.err THEN [ip |-> "", err |-> TRUE, client |-> c.client]
        ELSE IF ~listOk THEN [ip |-> "", err |-> TRUE, client |-> c.client]
        ELSE IF rec # NoRecord THEN [ip |-> rec, err |-> FALSE, client |-> c.client]
        ELSE [ip |-> "", err |-> TRUE, client |-> c.client]

\* Route53Provider.GetRecordIP.  rec is the first value of the record set
\* whose name is RecordName + "." (compared case-insensitively) and whose
\* type is RecordType, or NoRecord when the listing holds no such set or the
\* set has no values.
R53GetRecordIP(client, rec, createOk, listOk) ==
    LET c == getClient(client, createOk)
    IN  IF c.err THEN [ip |-> "", err |-> TRUE, client |-> c.client]
        ELSE IF ~listOk THEN [ip |-> "", err |-> TRUE, client |-> c.client]
        ELSE IF rec # NoRecord THEN [ip |-> rec, err |-> FALSE, client |-> c.client]
        ELSE [ip |-> "", err |-> TRUE, client |-> c.client]

\* Variant: nil is returned for a matching record without the write.
CFUpdateRecordIPNoWrite(client, rec, ip, createOk, listOk, writeOk) ==
    LET c == getClient(client, createOk)
    IN  IF c.err THEN [err |-> TRUE, client |-> c.client, rec |-> rec, wrote |-> FALSE]
        ELSE IF ~listOk THEN [err |-> TRUE, client |-> c.client, rec |-> rec, wrote |-> FALSE]
        ELSE IF rec # NoRecord
        THEN [err |-> FALSE, client |-> c.client, rec |-> rec, wrote |-> FALSE]
        ELSE [err |-> TRUE, client |-> c.client, rec |-> rec, wrote |-> FALSE]

\* CloudflareProvider.UpdateRecordIP: list, then UpdateDNSRecord on the
\* matching record; no write when there is none.
CFUpdateRecordIP(client, rec, ip, createOk, listOk, writeOk) ==
    LET c == getClient(client, createOk)
    IN  IF c.err THEN [err |-> TRUE, client |-> c.client, rec |-> rec, wrote |-> FALSE]
        ELSE IF ~listOk THEN [err |-> TRUE, client |-> c.client, rec |-> rec, wrote |-> FALSE]
        ELSE IF rec # NoRecord
        THEN IF writeOk
             THEN [err |-> FALSE, client |-> c.client, rec |-> ip, wrote |-> TRUE]
             ELSE [err |-> TRUE, client |-> c.client, rec |-> rec, wrote |-> FALSE]
        ELSE [err |-> TRUE, client |-> c.client, rec |-> rec, wrote |-> FALSE]

\* Variant: nil is returned without the change having been made.
R53UpdateRecordIPNoWrite(client, rec, ip, createOk, listOk, writeOk) ==
    LET c == getClient(client, createOk)
    IN  IF c.err THEN [err |-> TRUE, client |-> c.client, rec |-> rec, wrote |-> FALSE]
        ELSE IF writeOk
        THEN [err |-> FALSE, client |-> c.client, rec |-> rec, wrote |-> FALSE]
        ELSE [err |-> TRUE, client |-> c.client, rec |-> rec, wrote |-> FALSE]

\* Variant: the record is looked up first and nothing is written without it.
R53UpdateRecordIPListFirst(client, rec, ip, createOk, listOk, writeOk) ==
    LET c == getClient(client, createOk)
    IN  IF c.err THEN [err |-> TRUE, client |-> c.client, rec |-> rec, wrote |-> FALSE]
        ELSE IF rec = NoRecord
        THEN [err |-> TRUE, client |-> c.client, rec |-> rec, wrote |-> FALSE]
        ELSE IF writeOk
        THEN [err |-> FALSE, client |-> c.client, rec |-> ip, wrote |-> TRUE]
        ELSE [err |-> TRUE, client |-> c.client, rec |-> rec, wrote |-> FALSE]

\* Route53Provider.UpdateRecordIP: an UPSERT change, without listing first
\* (listOk is not used: the record is created when it does not exist).
R53UpdateRecordIP(client, rec, ip, createOk, listOk, writeOk) ==
    LET c == getClient(client, createOk)
    IN  IF c.err THEN [err |-> TRUE, client |-> c.client, rec |-> rec, wrote |-> FALSE]
        ELSE IF writeOk
        THEN [err |-> FALSE, client |-> c.client, rec |-> ip, wrote |-> TRUE]
        ELSE [err |-> TRUE, client |-> c.client, rec |-> rec, wrote |-> FALSE]

\* Dispatch through the DNSProvider interface.
GetRecordIP(p, client, rec, createOk, listOk) ==
    IF p = "cloudflare" THEN CFGetRecordIP(client, rec, createOk, listOk)
    ELSE R53GetRecordIP(client, rec, createOk, listOk)

UpdateRecordIP(p, client, rec, ip, createOk, listOk, writeOk) ==
    IF p = "cloudflare" THEN CFUpdateRecordIP(client, rec, ip, createOk, listOk, writeOk)
    ELSE R53UpdateRecordIP(client, rec, ip, createOk, listOk, writeOk)

\* Variant: the record is rewritten whether or not it differs.
NeedsUpdateAlways(dnsIP, currentIP) ==
    TRUE

\* Variant: the record is never rewritten.
NeedsUpdateNever(dnsIP, currentIP) ==
    FALSE

\* The comparison of Start that decides whether a record is rewritten.
NeedsUpdate(dnsIP, currentIP) ==
    dnsIP # currentIP

\* ------------------------------------------------------------------- state
VARIABLES
    pc,           \* position of the main goroutine
    fileState,    \* the config file on disk
    intervalStr,  \* interval string in the file
    blobs,        \* providers section of the file
    LogFile,      \* -log flag
    cfg,          \* *config.Config returned by LoadConfig
    sigHandler,   \* signal goroutine: "none", "waiting", "done"
    cancelled,    \* ctx.Done() is closed
    reg,          \* reg.Providers
    lastKnown,    \* lastKnown map, "" for a missing key
    ticker,       \* "none", "running", "stopped"
    fires,        \* number of times the ticker has fired
    pendingFire,  \* the fire held in ticker.C (0: channel empty)
    passFire,     \* the fire that started the current or latest pass
    lateFires,    \* history: timer fires since the signal cancelled ctx, up to 2
    currentIP,    \* currentIP of the running pass
    idx,          \* position of the range loop in reg.Providers
    Client,       \* per adapter: the cached vendor client is set
    record,       \* per vendor: content of the configured record
    passCalls,    \* history: the calls of the current or latest pass
    netCalls,     \* history: who has ever been called
    startResult,  \* what Start returned: "none", "nil", "err"
    runErr,       \* what run returned: "none", "nil" or the wrapped error
    exitCode      \* process exit status, -1 while running

\* State of the components when they are exercised on their own (the IP
\* source client, the logger, the adapters against a vendor zone, main's flag
\* handling) and of the environment the loop runs in.  The process
\* specification Spec leaves all of it untouched.
VARIABLES
    answer,       \* the answer of the IP source to the request under way
    ipResult,     \* what GetCurrentIP returned for answer, NotCalled before
    zone,         \* per vendor: the records of the configured zone
    adapterCfg,   \* per adapter: its Cfg (record name and type)
    adapterClient,\* per adapter: the cached vendor client is set
    lastCall,     \* history: the latest call of an adapter method
    argVersion,   \* -version is on the command line
    versionFlag,  \* *versionFlag, the value flag.Bool points at
    versionPrinted, \* main has printed the version line
    levelArg,     \* the level string given to InitLogger
    logLevel,     \* logger.logLevel
    globalLevel,  \* zerolog's global level
    logReady,     \* InitLogger has set up the logger
    logCalls,     \* history: the calls of Debug, Info, Warn and Error
    publicIP,     \* the address the IP source reports once it is stable
    stable,       \* the environment has become stable
    phase,        \* observer of two passes: 0 idle, 1 first pass, 2 second pass
    firstFire,    \* the timer fire that starts the first observed pass
    secondFire,   \* the timer fire that starts the second observed pass
    firstOk,      \* every call of the first observed pass succeeded
    firstIP,      \* the public IP the first observed pass fetched
    runA,         \* one run of the loop of Start, as a record of its locals
    runB          \* a second run of the loop, fed the same inputs as runA

ipVars == <<answer, ipResult>>
adapterVars == <<zone, adapterCfg, adapterClient, lastCall>>
flagVars == <<argVersion, versionFlag, versionPrinted>>
logVars == <<levelArg, logLevel, globalLevel, logReady, logCalls>>
envVars == <<publicIP, stable, phase, firstFire, secondFire, firstOk, firstIP>>
twoVars == <<runA, runB>>
unitVars == <<ipVars, adapterVars, flagVars, logVars, envVars, twoVars>>

vars ==
    <<pc, fileState, intervalStr, blobs, LogFile, cfg, sigHandler, cancelled,
      reg, lastKnown, ticker, fires, pendingFire, passFire, currentIP, idx,
      Client, record, passCalls, netCalls, startResult, runErr, exitCode,
      lateFires, unitVars>>

inputVars == <<fileState, intervalStr, blobs, LogFile>>
loopVars == <<reg, lastKnown, currentIP, idx, passCalls, passFire>>
vendorVars == <<Client, record, netCalls>>
tickVars == <<ticker, fires, pendingFire, lateFires>>
procVars == <<startResult, runErr, exitCode>>

NotCalled == <<>>

\* record_name and record_type of both adapters' configuration.
RecordName == "home.example.com"

RecordType == "A"

AdapterConfig ==
    [p \in ProviderNames |-> [RecordName |-> RecordName, RecordType |-> RecordType]]

\* No adapter method has been called.
NoCall ==
    [p |-> "", op |-> "none", ip |-> "", ret |-> "", err |-> FALSE,
     createOk |-> FALSE, listOk |-> FALSE, writeOk |-> FALSE,
     present |-> FALSE, listing |-> <<>>, wrote |-> FALSE]

IPSourceAtRest ==
    /\ answer = [getErr |-> TRUE, status |-> 0, body |-> "", readErr |-> FALSE]
    /\ ipResult = NotCalled

AdaptersAtRest ==
    /\ zone = [p \in ProviderNames |-> <<>>]
    /\ adapterCfg = AdapterConfig
    /\ adapterClient = [p \in ProviderNames |-> FALSE]
    /\ lastCall = NoCall

\* main of part_001 is past flag.Parse without -version.
FlagsAtRest ==
    /\ argVersion = FALSE
    /\ versionFlag = FALSE
    /\ versionPrinted = FALSE

\* The package variables of logger before InitLogger: zero values.
LoggerAtRest ==
    /\ levelArg = ""
    /\ logLevel = 0
    /\ globalLevel = 0
    /\ logReady = FALSE
    /\ logCalls = <<>>

\* Nothing is assumed of the environment.
EnvAtRest ==
    /\ publicIP = ""
    /\ stable = FALSE
    /\ phase = 0
    /\ firstFire = 0
    /\ secondFire = 0
    /\ firstOk = FALSE
    /\ firstIP = ""

\* A run of the loop that has not been started.
ParkedRun ==
    [pc |-> "parked", reg |-> <<>>, idx |-> 0, currentIP |-> "", calls |-> <<>>,
     lastKnown |-> [p \in ProviderNames |-> ""],
     record |-> [p \in ProviderNames |-> NoRecord],
     Client |-> [p \in ProviderNames |-> FALSE]]

TwoRunsAtRest ==
    /\ runA = ParkedRun
    /\ runB = ParkedRun

\* The components that Spec does not exercise on their own are at rest.
UnitsAtRest ==
    /\ IPSourceAtRest
    /\ AdaptersAtRest
    /\ FlagsAtRest
    /\ LoggerAtRest
    /\ EnvAtRest
    /\ TwoRunsAtRest

Init ==
    /\ UnitsAtRest
    /\ pc = "LoadConfig"
    /\ fileState \in FileStates
    /\ intervalStr \in IntervalStrings
    /\ blobs \in [ProviderNames -> BlobKinds]
    /\ LogFile \in LogFiles
    /\ cfg = NilCfg
    /\ sigHandler = "none"
    /\ cancelled = FALSE
    /\ reg = <<>>
    /\ lastKnown = [p \in ProviderNames |-> ""]
    /\ ticker = "none"
    /\ fires = 0
    /\ pendingFire = 0
    /\ passFire = 0
    /\ currentIP = ""
    /\ idx = 0
    /\ Client = [p \in ProviderNames |-> FALSE]
    /\ record = [p \in ProviderNames |-> NoRecord]
    /\ passCalls = <<>>
    /\ netCalls = {}
    /\ startResult = "none"
    /\ runErr = "none"
    /\ exitCode = -1
    /\ lateFires = 0

\* ----------------------------------------------------------- main and run
\* run: config.LoadConfig and its error return.
LoadConfigStep ==
    /\ pc = "LoadConfig"
    /\ LET r == LoadConfig(fileState, intervalStr, blobs)
       IN  IF r.err
           THEN /\ runErr' = "failed to load configuration"
                /\ pc' = "runReturned"
                /\ cfg' = cfg
           ELSE /\ cfg' = r.cfg
                /\ pc' = "InitLogger"
                /\ runErr' = runErr
    /\ UNCHANGED <<inputVars, unitVars, sigHandler, cancelled, loopVars, vendorVars,
                   tickVars, startResult, exitCode>>

\* run: logger.InitLogger, context.WithCancel and the start of the signal
\* goroutine.
InitLoggerStep ==
    /\ pc = "InitLogger"
    /\ IF InitLogger(LogFile).err
       THEN /\ runErr' = "failed to initialize logger"
            /\ pc' = "runReturned"
            /\ sigHandler' = sigHandler
       ELSE /\ sigHandler' = "waiting"
            /\ pc' = "Start"
            /\ runErr' = runErr
    /\ UNCHANGED <<inputVars, unitVars, cfg, cancelled, loopVars, vendorVars, tickVars,
                   startResult, exitCode>>

\* Variant: the signal goroutine also clears the last-known-IP map.
SignalForgets ==
    /\ sigHandler = "waiting"
    /\ pc \notin {"exited", "panicked"}
    /\ sigHandler' = "done"
    /\ cancelled' = TRUE
    /\ lastKnown' = [p \in ProviderNames |-> ""]
    /\ UNCHANGED <<pc, inputVars, unitVars, cfg, reg, currentIP, idx, passCalls, passFire,
                   vendorVars, tickVars, procVars>>

\* The signal goroutine: SIGINT or SIGTERM arrives and it calls cancel().
Signal ==
    /\ sigHandler = "waiting"
    /\ pc \notin {"exited", "panicked"}
    /\ sigHandler' = "done"
    /\ cancelled' = TRUE
    /\ UNCHANGED <<pc, inputVars, unitVars, cfg, loopVars, vendorVars, tickVars, procVars>>

\* Variant: a pass is run before the first wait on the ticker.
StartBuildPassFirst ==
    /\ pc = "Start"
    /\ IF cfg.nil
       THEN /\ startResult' = "nil"
            /\ pc' = "StartReturned"
            /\ UNCHANGED <<reg, lastKnown, ticker, exitCode>>
       ELSE LET r == NewDNSProviderRegistry(BuildProvidersList(cfg.Providers))
            IN  IF r.err
                THEN /\ startResult' = "err"
                     /\ pc' = "StartReturned"
                     /\ UNCHANGED <<reg, lastKnown, ticker, exitCode>>
                ELSE /\ reg' = r.Providers
                     /\ lastKnown' = [p \in ProviderNames |-> ""]
                     /\ startResult' = startResult
                     /\ IF cfg.Interval <= 0
                        THEN /\ pc' = "panicked"
                             /\ exitCode' = 2
                             /\ ticker' = ticker
                        ELSE /\ pc' = "GetCurrentIP"
                             /\ ticker' = "running"
                             /\ exitCode' = exitCode
    /\ UNCHANGED <<inputVars, unitVars, cfg, sigHandler, cancelled, currentIP, idx,
                   passCalls, passFire, vendorVars, fires, pendingFire,
                   lateFires, runErr>>

\* Start up to the loop: the nil check, the registry, lastKnown and the
\* ticker.  time.NewTicker panics on a non-positive interval.
StartBuild ==
    /\ pc = "Start"
    /\ IF cfg.nil
       THEN /\ startResult' = "nil"
            /\ pc' = "StartReturned"
            /\ UNCHANGED <<reg, lastKnown, ticker, exitCode>>
       ELSE LET r == NewDNSProviderRegistry(BuildProvidersList(cfg.Providers))
            IN  IF r.err
                THEN /\ startResult' = "err"
                     /\ pc' = "StartReturned"
                     /\ UNCHANGED <<reg, lastKnown, ticker, exitCode>>
                ELSE /\ reg' = r.Providers
                     /\ lastKnown' = [p \in ProviderNames |-> ""]
                     /\ startResult' = startResult
                     /\ IF cfg.Interval <= 0
                        THEN /\ pc' = "panicked"
                             /\ exitCode' = 2
                             /\ ticker' = ticker
                        ELSE /\ pc' = "select"
                             /\ ticker' = "running"
                             /\ exitCode' = exitCode
    /\ UNCHANGED <<inputVars, unitVars, cfg, sigHandler, cancelled, currentIP, idx,
                   passCalls, passFire, vendorVars, fires, pendingFire,
                   lateFires, runErr>>

\* run: the value of Start wrapped, and the deferred cancel().
RunReturn ==
    /\ pc = "StartReturned"
    /\ runErr' = IF startResult = "err"
                 THEN "failed to start DNS update service"
                 ELSE "nil"
    /\ cancelled' = TRUE
    /\ pc' = "runReturned"
    /\ UNCHANGED <<inputVars, unitVars, cfg, sigHandler, loopVars, vendorVars, tickVars,
                   startResult, exitCode>>

\* main: os.Exit(1) on an error of run, a normal return otherwise.
MainExit ==
    /\ pc = "runReturned"
    /\ exitCode' = MainExitCode(runErr)
    /\ pc' = "exited"
    /\ UNCHANGED <<inputVars, unitVars, cfg, sigHandler, cancelled, loopVars, vendorVars,
                   tickVars, startResult, runErr>>

\* ------------------------------------------------------------------- timer
\* The ticker fires.  ticker.C holds one value; a fire that finds it full
\* is dropped.
TimerFire ==
    /\ ticker = "running"
    /\ fires < MaxFires
    /\ fires' = fires + 1
    /\ pendingFire' = IF pendingFire = 0 THEN fires + 1 ELSE pendingFire
    /\ lateFires' = IF sigHandler = "done" /\ lateFires < 2
                    THEN lateFires + 1
                    ELSE lateFires
    /\ UNCHANGED <<pc, inputVars, unitVars, cfg, sigHandler, cancelled, loopVars,
                   vendorVars, ticker, procVars>>

\* ---------------------------------------------------------------- the loop
\* Variant: a provider whose client could not be created in an earlier call
\* is passed over.
AdvanceSkipFailed(i) ==
    LET Rest == {k \in (i + 1)..Len(reg) :
                    ~(reg[k] \in netCalls /\ ~Client[reg[k]])}
    IN  IF Rest # {}
        THEN /\ pc' = "GetRecordIP"
             /\ idx' = CHOOSE k \in Rest : \A m \in Rest : k <= m
        ELSE /\ pc' = "select"
             /\ idx' = 0

\* Variant: the registry is walked from its end.
AdvanceFromEnd(i) ==
    IF i = 0
    THEN /\ pc' = "GetRecordIP"
         /\ idx' = Len(reg)
    ELSE IF i > 1
    THEN /\ pc' = "GetRecordIP"
         /\ idx' = i - 1
    ELSE /\ pc' = "select"
         /\ idx' = 0

\* The position after the provider at index i has been dealt with.
Advance(i) ==
    IF i < Len(reg)
    THEN /\ pc' = "GetRecordIP"
         /\ idx' = i + 1
    ELSE /\ pc' = "select"
         /\ idx' = 0

\* Variant: break instead of continue, the rest of the registry is skipped.
OnProviderErrorBreak(i) ==
    /\ pc' = "select"
    /\ idx' = 0

\* Variant: the failed provider is tried again.
OnProviderErrorRetry(i) ==
    /\ pc' = "GetRecordIP"
    /\ idx' = i

\* The continue after a failed GetRecordIP or UpdateRecordIP of the
\* provider at index i.
OnProviderError(i) ==
    Advance(i)

Call(op, p, arg, ret, err) ==
    [op |-> op, p |-> p, arg |-> arg, ret |-> ret, err |-> err]

\* Variant: the loop gives up although the context is not cancelled.
SelectDoneUncancelled ==
    /\ pc = "select"
    /\ startResult' = "nil"
    /\ ticker' = "stopped"
    /\ pc' = "StartReturned"
    /\ UNCHANGED <<inputVars, unitVars, cfg, sigHandler, cancelled, loopVars, vendorVars,
                   fires, pendingFire, lateFires, runErr, exitCode>>

\* select, case <-s.ctx.Done(): Start returns nil; the deferred Stop runs.
SelectDone ==
    /\ pc = "select"
    /\ cancelled
    /\ startResult' = "nil"
    /\ ticker' = "stopped"
    /\ pc' = "StartReturned"
    /\ UNCHANGED <<inputVars, unitVars, cfg, sigHandler, cancelled, loopVars, vendorVars,
                   fires, pendingFire, lateFires, runErr, exitCode>>

\* Variant: a timer fire starts a pass of its own, whatever the loop is doing.
SelectTickAnytime ==
    /\ pc \in {"select", "GetCurrentIP", "GetRecordIP", "UpdateRecordIP"}
    /\ pendingFire # 0
    /\ passFire' = pendingFire
    /\ pendingFire' = 0
    /\ passCalls' = <<>>
    /\ currentIP' = ""
    /\ pc' = "GetCurrentIP"
    /\ UNCHANGED <<inputVars, unitVars, cfg, sigHandler, cancelled, reg, lastKnown, idx,
                   vendorVars, ticker, fires, lateFires, procVars>>

\* Variant: a default case runs the pass when no fire is pending.
SelectTickDefault ==
    /\ pc = "select"
    /\ passFire' = IF pendingFire # 0 THEN pendingFire ELSE passFire
    /\ pendingFire' = 0
    /\ passCalls' = <<>>
    /\ currentIP' = ""
    /\ pc' = "GetCurrentIP"
    /\ UNCHANGED <<inputVars, unitVars, cfg, sigHandler, cancelled, reg, lastKnown, idx,
                   vendorVars, ticker, fires, lateFires, procVars>>

\* Variant: the receive leaves the fire in ticker.C.
SelectTickKeepsPending ==
    /\ pc = "select"
    /\ pendingFire # 0
    /\ passFire' = pendingFire
    /\ pendingFire' = pendingFire
    /\ passCalls' = <<>>
    /\ currentIP' = ""
    /\ pc' = "GetCurrentIP"
    /\ UNCHANGED <<inputVars, unitVars, cfg, sigHandler, cancelled, reg, lastKnown, idx,
                   vendorVars, ticker, fires, lateFires, procVars>>

\* select, case <-ticker.C: a pass begins.  When both cases are ready the
\* runtime picks either.
SelectTick ==
    /\ pc = "select"
    /\ pendingFire # 0
    /\ passFire' = pendingFire
    /\ pendingFire' = 0
    /\ passCalls' = <<>>
    /\ currentIP' = ""
    /\ pc' = "GetCurrentIP"
    /\ UNCHANGED <<inputVars, unitVars, cfg, sigHandler, cancelled, reg, lastKnown, idx,
                   vendorVars, ticker, fires, lateFires, procVars>>

\* Variant: no continue, the providers are processed with an empty currentIP.
GetCurrentIPStepNoContinue ==
    /\ pc = "GetCurrentIP"
    /\ \E resp \in Responses :
          LET r == GetCurrentIP(resp)
          IN  /\ passCalls' = Append(passCalls, Call("GetCurrentIP", "ipsource", "", r.ip, r.err))
              /\ currentIP' = r.ip
              /\ Advance(0)
    /\ netCalls' = netCalls \cup {"ipsource"}
    /\ UNCHANGED <<inputVars, unitVars, cfg, sigHandler, cancelled, reg, lastKnown,
                   passFire, Client, record, tickVars, procVars>>

\* Variant: the error of GetCurrentIP is returned from Start.
GetCurrentIPStepReturnErr ==
    /\ pc = "GetCurrentIP"
    /\ \E resp \in Responses :
          LET r == GetCurrentIP(resp)
          IN  /\ passCalls' = Append(passCalls, Call("GetCurrentIP", "ipsource", "", r.ip, r.err))
              /\ IF r.err
                 THEN /\ pc' = "StartReturned"
                      /\ startResult' = "err"
                      /\ ticker' = "stopped"
                      /\ UNCHANGED <<currentIP, idx>>
                 ELSE /\ currentIP' = r.ip
                      /\ Advance(0)
                      /\ UNCHANGED <<startResult, ticker>>
    /\ netCalls' = netCalls \cup {"ipsource"}
    /\ UNCHANGED <<inputVars, unitVars, cfg, sigHandler, cancelled, reg, lastKnown,
                   passFire, Client, record, fires, pendingFire, lateFires,
                   runErr, exitCode>>

\* utils.GetCurrentIP(ipSource) and the continue on its error.
GetCurrentIPStep ==
    /\ pc = "GetCurrentIP"
    /\ \E resp \in Responses :
          LET r == GetCurrentIP(resp)
          IN  /\ passCalls' = Append(passCalls, Call("GetCurrentIP", "ipsource", "", r.ip, r.err))
              /\ IF r.err
                 THEN /\ pc' = "select"
                      /\ UNCHANGED <<currentIP, idx>>
                 ELSE /\ currentIP' = r.ip
                      /\ Advance(0)
    /\ netCalls' = netCalls \cup {"ipsource"}
    /\ UNCHANGED <<inputVars, unitVars, cfg, sigHandler, cancelled, reg, lastKnown,
                   passFire, Client, record, tickVars, procVars>>

\* p.GetRecordIP() for the provider at idx, and the comparison.
GetRecordIPStep ==
    /\ pc = "GetRecordIP"
    /\ LET p == reg[idx]
       IN  \E createOk \in BOOLEAN, listOk \in BOOLEAN :
              LET r == GetRecordIP(p, Client[p], record[p], createOk, listOk)
              IN  /\ Client' = [Client EXCEPT ![p] = r.client]
                  /\ passCalls' = Append(passCalls, Call("GetRecordIP", p, "", r.ip, r.err))
                  /\ netCalls' = netCalls \cup {p}
                  /\ IF r.err
                     THEN OnProviderError(idx)
                     ELSE IF NeedsUpdate(r.ip, currentIP)
                          THEN /\ pc' = "UpdateRecordIP"
                               /\ idx' = idx
                          ELSE Advance(idx)
    /\ UNCHANGED <<inputVars, unitVars, cfg, sigHandler, cancelled, reg, lastKnown,
                   currentIP, passFire, record, tickVars, procVars>>

\* Variant: lastKnown is written whether or not the update succeeded.
UpdateRecordIPStepRemembersAll ==
    /\ pc = "UpdateRecordIP"
    /\ LET p == reg[idx]
       IN  \E createOk \in BOOLEAN, listOk \in BOOLEAN, writeOk \in BOOLEAN :
              LET r == UpdateRecordIP(p, Client[p], record[p], currentIP,
                                      createOk, listOk, writeOk)
              IN  /\ Client' = [Client EXCEPT ![p] = r.client]
                  /\ record' = [record EXCEPT ![p] = r.rec]
                  /\ passCalls' = Append(passCalls, Call("UpdateRecordIP", p, currentIP, "", r.err))
                  /\ netCalls' = netCalls \cup {p}
                  /\ lastKnown' = [lastKnown EXCEPT ![p] = currentIP]
                  /\ IF r.err THEN OnProviderError(idx) ELSE Advance(idx)
    /\ UNCHANGED <<inputVars, unitVars, cfg, sigHandler, cancelled, reg, currentIP,
                   passFire, tickVars, procVars>>

\* p.UpdateRecordIP(currentIP) and the write of lastKnown.
UpdateRecordIPStep ==
    /\ pc = "UpdateRecordIP"
    /\ LET p == reg[idx]
       IN  \E createOk \in BOOLEAN, listOk \in BOOLEAN, writeOk \in BOOLEAN :
              LET r == UpdateRecordIP(p, Client[p], record[p], currentIP,
                                      createOk, listOk, writeOk)
              IN  /\ Client' = [Client EXCEPT ![p] = r.client]
                  /\ record' = [record EXCEPT ![p] = r.rec]
                  /\ passCalls' = Append(passCalls, Call("UpdateRecordIP", p, currentIP, "", r.err))
                  /\ netCalls' = netCalls \cup {p}
                  /\ IF r.err
                     THEN /\ lastKnown' = lastKnown
                          /\ OnProviderError(idx)
                     ELSE /\ lastKnown' = [lastKnown EXCEPT ![p] = currentIP]
                          /\ Advance(idx)
    /\ UNCHANGED <<inputVars, unitVars, cfg, sigHandler, cancelled, reg, currentIP,
                   passFire, tickVars, procVars>>

\* ------------------------------------------------------------- environment
\* The record is created, changed or deleted at the vendor by someone else.
ExternalChange ==
    /\ pc \in {"select", "GetCurrentIP", "GetRecordIP", "UpdateRecordIP"}
    /\ \E p \in ProviderNames, v \in IPs \cup {NoRecord} :
          /\ v # record[p]
          /\ record' = [record EXCEPT ![p] = v]
    /\ UNCHANGED <<pc, inputVars, unitVars, cfg, sigHandler, cancelled, loopVars, Client,
                   netCalls, tickVars, procVars>>

Next ==
    \/ LoadConfigStep
    \/ InitLoggerStep
    \/ Signal
    \/ StartBuild
    \/ RunReturn
    \/ MainExit
    \/ TimerFire
    \/ SelectDone
    \/ SelectTick
    \/ GetCurrentIPStep
    \/ GetRecordIPStep
    \/ UpdateRecordIPStep
    \/ ExternalChange

Spec == Init /\ [][Next]_vars

TypeOK ==
    /\ pc \in {"LoadConfig", "InitLogger", "Start", "select", "GetCurrentIP",
               "GetRecordIP", "UpdateRecordIP", "StartReturned", "runReturned",
               "exited", "panicked"}
    /\ cancelled \in BOOLEAN
    /\ fires \in 0..MaxFires
    /\ pendingFire \in 0..MaxFires
    /\ passFire \in 0..MaxFires
    /\ idx \in 0..2
    /\ currentIP \in IPs \cup {""}
    /\ record \in [ProviderNames -> IPs \cup {NoRecord}]
    /\ lastKnown \in [ProviderNames -> IPs \cup {""}]
    /\ exitCode \in {-1, 0, 1, 2}

\* ------------------------------------------------- reading the pass history
\* The public IP fetched in the pass (empty when the fetch failed or has not
\* happened yet).
FetchedIPs ==
    {passCalls[i].ret : i \in {j \in DOMAIN passCalls :
                                  passCalls[j].op = "GetCurrentIP" /\ ~passCalls[j].err}}

\* Positions in the pass history of the calls of operation op on provider p.
CallsOf(op, p) ==
    {i \in DOMAIN passCalls : passCalls[i].op = op /\ passCalls[i].p = p}

\* Values that successful GetRecordIP calls on p returned in the pass.
ReadValues(p) ==
    {passCalls[i].ret : i \in {j \in CallsOf("GetRecordIP", p) : ~passCalls[j].err}}

InPass == pc \in {"GetCurrentIP", "GetRecordIP", "UpdateRecordIP"}

InLoop == pc \in {"select", "GetCurrentIP", "GetRecordIP", "UpdateRecordIP"}

\* ------------------------------------------------------------------ claims
\* C1: in every pass, a provider whose GetRecordIP succeeded and returned the
\* public IP fetched in that pass receives no UpdateRecordIP call in that pass.
C1_NoUpdateWhenEqual ==
    \A p \in ProviderNames :
        \A v \in FetchedIPs :
            v \in ReadValues(p) => CallsOf("UpdateRecordIP", p) = {}

\* A pass is over in which route53 returned the fetched IP and was left
\* alone while cloudflare was rewritten.
C1_Witness ==
    /\ pc = "select"
    /\ \E v \in FetchedIPs : v \in ReadValues("route53")
    /\ CallsOf("UpdateRecordIP", "route53") = {}
    /\ CallsOf("UpdateRecordIP", "cloudflare") # {}

\* C2: in every pass, a provider whose GetRecordIP succeeded and returned a
\* value different from the fetched public IP receives UpdateRecordIP exactly
\* once in that pass, with the fetched IP as argument (the call is the loop's
\* very next step while it has not happened yet).
C2_UpdateOnceWhenDifferent ==
    \A p \in ProviderNames :
        \A v \in FetchedIPs :
            (\E d \in ReadValues(p) : d # v) =>
                /\ \A i \in CallsOf("UpdateRecordIP", p) : passCalls[i].arg = v
                /\ \/ Cardinality(CallsOf("UpdateRecordIP", p)) = 1
                   \/ /\ CallsOf("UpdateRecordIP", p) = {}
                      /\ pc = "UpdateRecordIP"
                      /\ reg[idx] = p

\* A pass is over in which both providers held another address and were
\* written once each.
C2_Witness ==
    /\ pc = "select"
    /\ \E v \in FetchedIPs :
          \A p \in ProviderNames :
              /\ ReadValues(p) # {}
              /\ v \notin ReadValues(p)
              /\ Cardinality(CallsOf("UpdateRecordIP", p)) = 1

\* The step makes one call; LastCall' is that call.
CallStep == Len(passCalls') = Len(passCalls) + 1

LastCall == passCalls[Len(passCalls)]

ProviderOps == {"GetRecordIP", "UpdateRecordIP"}

ProviderCallStep == CallStep /\ LastCall'.op \in ProviderOps

ProviderErrorStep == ProviderCallStep /\ LastCall'.err

FetchErrorStep == CallStep /\ LastCall'.op = "GetCurrentIP" /\ LastCall'.err

\* Start has returned (or the process has gone on from there).
AfterStart == pc \in {"StartReturned", "runReturned", "exited"}

\* C3 as stated: after the cancellation no provider call is invoked, and
\* Start is back before a second timer fire follows the cancellation.
C3_Original ==
    [][ /\ (sigHandler = "done" => ~ProviderCallStep)
        /\ ((sigHandler' = "done" /\ InLoop') => lateFires' <= 1) ]_vars

\* C3, amended: with the context cancelled, the select that finds no timer
\* fire pending returns nil from Start and stops the ticker, and once Start
\* has returned no call is made and the ticker fires no more.  (A pass that is
\* running, or that a pending fire starts, still makes all its calls.)
C3_ReturnsAtQuietSelect ==
    [][ /\ (cancelled /\ pc = "select" /\ pendingFire = 0 /\ pc' # pc)
              => (pc' = "StartReturned" /\ startResult' = "nil" /\ ticker' = "stopped")
        /\ AfterStart
              => (passCalls' = passCalls /\ netCalls' = netCalls /\ fires' = fires) ]_vars

\* Start has returned nil after a signal that arrived during a pass: calls
\* followed the cancellation.
C3_Witness ==
    /\ pc = "StartReturned"
    /\ startResult = "nil"
    /\ sigHandler = "done"
    /\ ticker = "stopped"
    /\ fires >= 1
    /\ pendingFire = 0
    /\ CallsOf("UpdateRecordIP", "route53") # {}

\* Position of provider p in the registry (0 when it is not registered).
Pos(p) ==
    IF \E k \in DOMAIN reg : reg[k] = p
    THEN CHOOSE k \in DOMAIN reg : reg[k] = p
    ELSE 0

\* In the pass history, no call on a provider follows a failed call on it.
NoCallAfterError ==
    \A i \in DOMAIN passCalls, j \in DOMAIN passCalls :
        (i < j /\ passCalls[i].err) => passCalls[j].p # passCalls[i].p

\* Once the pass is over, every provider registered after one whose call
\* failed has had its GetRecordIP called.
LaterProvidersProcessed ==
    ~InPass =>
        \A i \in DOMAIN passCalls :
            (passCalls[i].op \in ProviderOps /\ passCalls[i].err) =>
                \A k \in DOMAIN reg :
                    k > Pos(passCalls[i].p) => CallsOf("GetRecordIP", reg[k]) # {}

\* C4: a failed GetRecordIP or UpdateRecordIP ends the work on that provider
\* for the pass, the loop goes on with the next provider of the registry (or
\* back to the select after the last one), and Start does not return.
C4_ProviderErrorSkipsProvider ==
    [][ /\ ProviderErrorStep =>
              /\ startResult' = "none"
              /\ ticker' = "running"
              /\ IF idx < Len(reg)
                 THEN pc' = "GetRecordIP" /\ idx' = idx + 1
                 ELSE pc' = "select"
        /\ NoCallAfterError'
        /\ LaterProvidersProcessed' ]_vars

\* A pass is over in which cloudflare's read failed, route53 was still read
\* and its write failed as well.
C4_Witness ==
    /\ pc = "select"
    /\ \E i \in CallsOf("GetRecordIP", "cloudflare") : passCalls[i].err
    /\ \E j \in CallsOf("UpdateRecordIP", "route53") : passCalls[j].err
    /\ Len(passCalls) = 4

\* C5: a failed GetCurrentIP ends the tick: no provider is called, no record
\* and no lastKnown entry changes, Start does not return, and a pass begins
\* only by taking a timer fire later than the one of the pass before.
C5_FetchErrorSkipsTick ==
    [][ /\ FetchErrorStep =>
              /\ pc' = "select"
              /\ record' = record
              /\ lastKnown' = lastKnown
              /\ Client' = Client
              /\ startResult' = "none"
              /\ ticker' = "running"
        /\ (passCalls # <<>> /\ passCalls[1].err) => ~ProviderCallStep
        /\ (pc = "select" /\ pc' = "GetCurrentIP") =>
              /\ pendingFire # 0
              /\ passFire' = pendingFire
              /\ passFire' > passFire ]_vars

\* After a tick whose fetch failed, a later fire has started the next pass.
C5_Witness ==
    /\ pc = "GetRecordIP"
    /\ passFire >= 2
    /\ netCalls = {"ipsource"}

\* C6: within a pass GetCurrentIP is called at most once and, on every
\* provider, GetRecordIP at most once and UpdateRecordIP at most once.
C6_NoRetryInTick ==
    /\ Cardinality(CallsOf("GetCurrentIP", "ipsource")) <= 1
    /\ \A p \in ProviderNames :
          /\ Cardinality(CallsOf("GetRecordIP", p)) <= 1
          /\ Cardinality(CallsOf("UpdateRecordIP", p)) <= 1

\* A pass is over in which a read and a write failed, each called once.
C6_Witness ==
    /\ pc = "select"
    /\ Len(passCalls) = 4
    /\ \E i \in CallsOf("UpdateRecordIP", "cloudflare") : passCalls[i].err
    /\ \E j \in CallsOf("GetRecordIP", "route53") : passCalls[j].err

\* C7: from the loop, Start returns only when the context is cancelled, and
\* it returns nil; while the ticker runs Start has not returned.
C7_ReturnsOnlyOnCancel ==
    [][ /\ (ticker = "running" /\ startResult' # "none") => (cancelled /\ startResult' = "nil")
        /\ (ticker' = "running" => (startResult' = "none" /\ InLoop')) ]_vars

\* Start has returned nil after the signal, the latest tick having failed at
\* the IP source and an earlier call having failed at a provider.
C7_Witness ==
    /\ pc = "StartReturned"
    /\ startResult = "nil"
    /\ sigHandler = "done"
    /\ passCalls # <<>>
    /\ passCalls[1].err
    /\ netCalls = {"ipsource", "cloudflare"}
    /\ ~Client["cloudflare"]

\* The logger is up and Start has been entered and has left its set-up.
StartBuilt == sigHandler # "none" /\ pc # "Start"

NoProviderEnabled == \A p \in ProviderNames : blobs[p] # "enabled"

\* C8: with no provider enabled, Start returns the registry's error (wrapped
\* by run) and has created no ticker and made no call.
C8_NoProviderIsAnError ==
    (StartBuilt /\ NoProviderEnabled) =>
        /\ startResult = "err"
        /\ reg = <<>>
        /\ ticker = "none"
        /\ fires = 0
        /\ netCalls = {}
        /\ passCalls = <<>>
        /\ pc \in {"StartReturned", "runReturned", "exited"}
        /\ pc \in {"runReturned", "exited"} => runErr = "failed to start DNS update service"

\* run has returned the wrapped registry error for a file with both
\* providers disabled.
C8_Witness ==
    /\ pc = "runReturned"
    /\ startResult = "err"
    /\ runErr = "failed to start DNS update service"
    /\ blobs = [p \in ProviderNames |-> "disabled"]

\* C9: with at least one provider enabled, the registry holds exactly the
\* enabled providers, once each, cloudflare before route53, and a provider
\* that is not enabled is never called.
C9_RegistryIsEnabledProviders ==
    /\ (StartBuilt /\ ~NoProviderEnabled) =>
          /\ {reg[k] : k \in DOMAIN reg} = {p \in ProviderNames : blobs[p] = "enabled"}
          /\ Len(reg) = Cardinality({p \in ProviderNames : blobs[p] = "enabled"})
          /\ Len(reg) = 2 => (reg[1] = "cloudflare" /\ reg[2] = "route53")
    /\ \A p \in ProviderNames :
          blobs[p] # "enabled" =>
              /\ p \notin netCalls
              /\ CallsOf("GetRecordIP", p) = {}
              /\ CallsOf("UpdateRecordIP", p) = {}

\* Only route53 is enabled (cloudflare has no enabled key) and route53 has
\* been read and written.
C9_Witness ==
    /\ blobs = [p \in ProviderNames |-> IF p = "route53" THEN "enabled" ELSE "noflag"]
    /\ reg = <<"route53">>
    /\ CallsOf("UpdateRecordIP", "route53") # {}
    /\ pc = "select"

\* The inputs with which the process cannot start.
StartupFailure ==
    \/ fileState \in {"unreadable", "badyaml"}
    \/ intervalStr = "soon"
    \/ LogFile = "/nodir/dynago.log"
    \/ NoProviderEnabled

\* C10: the process exits with 1 on every startup failure and with 0 when
\* the loop was ended by the signal; a startup failure never reaches the loop.
C10_ExitCodes ==
    /\ (pc = "exited" /\ StartupFailure) => exitCode = 1
    /\ (pc = "exited" /\ ~StartupFailure /\ sigHandler = "done" /\ ticker = "stopped")
          => exitCode = 0
    /\ StartupFailure => (ticker = "none" /\ exitCode \in {-1, 1})
    /\ exitCode \in {0, 1} <=> pc = "exited"

\* The process has exited with 0 after two passes and the signal.
C10_Witness ==
    /\ pc = "exited"
    /\ exitCode = 0
    /\ sigHandler = "done"
    /\ passFire >= 2
    /\ LogFile = "dynago.log"

\* ================================================= components on their own
\* The process is not running: the state of main, run and Start as Init has
\* it, for one well-formed configuration.
MainParked ==
    /\ pc = "LoadConfig"
    /\ fileState = "ok"
    /\ intervalStr = "5m"
    /\ blobs = [p \in ProviderNames |-> "enabled"]
    /\ LogFile = ""
    /\ cfg = NilCfg
    /\ sigHandler = "none"
    /\ cancelled = FALSE
    /\ reg = <<>>
    /\ lastKnown = [p \in ProviderNames |-> ""]
    /\ ticker = "none"
    /\ fires = 0
    /\ pendingFire = 0
    /\ passFire = 0
    /\ currentIP = ""
    /\ idx = 0
    /\ Client = [p \in ProviderNames |-> FALSE]
    /\ record = [p \in ProviderNames |-> NoRecord]
    /\ passCalls = <<>>
    /\ netCalls = {}
    /\ startResult = "none"
    /\ runErr = "none"
    /\ exitCode = -1
    /\ lateFires = 0

mainVars ==
    <<pc, fileState, intervalStr, blobs, LogFile, cfg, sigHandler, cancelled,
      reg, lastKnown, ticker, fires, pendingFire, passFire, currentIP, idx,
      Client, record, passCalls, netCalls, startResult, runErr, exitCode,
      lateFires>>

\* ------------------------------------------------------ the IP source client
\* Status codes and bodies the IP source may answer with.  Some sources end
\* the address with a newline.
Statuses == {StatusOK, 201, 204, 403, 404, 500, 503}

Bodies == {"1.2.3.4", "1.2.3.4\n", " 5.6.7.8", ""}

IPSourceAnswers ==
    {[getErr |-> TRUE, status |-> 0, body |-> "", readErr |-> FALSE]} \cup
    [getErr : {FALSE}, status : Statuses, body : Bodies, readErr : BOOLEAN]

InitIPSource ==
    /\ MainParked
    /\ AdaptersAtRest
    /\ FlagsAtRest
    /\ LoggerAtRest
    /\ EnvAtRest
    /\ TwoRunsAtRest
    /\ answer \in IPSourceAnswers
    /\ ipResult = NotCalled

\* GetCurrentIP(ipSource) is called and the source answers with answer.
CallGetCurrentIP ==
    /\ ipResult = NotCalled
    /\ ipResult' = <<GetCurrentIP(answer)>>
    /\ UNCHANGED <<mainVars, adapterVars, flagVars, logVars, envVars, twoVars, answer>>

\* The next request: the source will answer again.
NextRequest ==
    /\ ipResult # NotCalled
    /\ answer' \in IPSourceAnswers
    /\ ipResult' = NotCalled
    /\ UNCHANGED <<mainVars, adapterVars, flagVars, logVars, envVars, twoVars>>

NextIPSource ==
    \/ CallGetCurrentIP
    \/ NextRequest

SpecIPSource == InitIPSource /\ [][NextIPSource]_vars

\* The request went through: a response arrived and its body was read.
AnswerComplete == ~answer.getErr /\ ~answer.readErr

\* C11: GetCurrentIP returns the body as it is, and no error, for an answer
\* with status 200; it returns "" and an error for every other status and
\* when the request fails (no response, or a body that cannot be read).
C11_GetCurrentIPResult ==
    ipResult # NotCalled =>
        /\ (AnswerComplete /\ answer.status = 200)
              => ipResult[1] = [ip |-> answer.body, err |-> FALSE]
        /\ (~AnswerComplete \/ answer.status # 200)
              => ipResult[1] = [ip |-> "", err |-> TRUE]

\* A body with a trailing newline came back with status 200 and was returned
\* with the newline.
C11_Witness ==
    /\ answer.status = 200
    /\ AnswerComplete
    /\ answer.body = "1.2.3.4\n"
    /\ ipResult # NotCalled
    /\ ipResult[1].ip = "1.2.3.4\n"
    /\ ~ipResult[1].err

\* ------------------------------------------- the adapters against a vendor
\* Route53 reports names as fully qualified names, ending with a dot, and a
\* name may differ from the configured one in letter case.  strings.ToLower
\* on the strings that occur here with capital letters.
ToLower(name) ==
    CASE name = "HOME.example.com." -> "home.example.com."
      [] name = "DEBUG" -> "debug"
      [] name = "Warn" -> "warn"
      [] OTHER -> name

EqualFold(a, b) == ToLower(a) = ToLower(b)

\* The records a Cloudflare zone may hold; content is the record's value.
CFRecords ==
    {[name |-> RecordName, type |-> RecordType, content |-> ip] : ip \in IPs}
    \cup {[name |-> RecordName, type |-> "TXT", content |-> "v=spf1"],
          [name |-> "other.example.com", type |-> RecordType, content |-> "1.2.3.4"]}

\* The record sets a Route53 zone may hold; values are the ResourceRecords.
R53RecordSets ==
    {[name |-> "home.example.com.", type |-> RecordType, values |-> <<ip>>] : ip \in IPs}
    \cup {[name |-> "HOME.example.com.", type |-> RecordType,
           values |-> <<"5.6.7.8", "1.2.3.4">>],
          [name |-> "home.example.com.", type |-> RecordType, values |-> <<>>],
          [name |-> "home.example.com.", type |-> "TXT", values |-> <<"v=spf1">>],
          [name |-> "other.example.com.", type |-> RecordType, values |-> <<"1.2.3.4">>]}

\* Route53 lists record sets ordered by name, then by type.
RecordKey(name, type) ==
    (IF ToLower(name) = "home.example.com." THEN 0 ELSE 2)
      + (IF type = "A" THEN 0 ELSE 1)

KeyOf(r) == RecordKey(r.name, r.type)

\* Cloudflare gives each record of a zone an ID.
WithIDs(z) ==
    [i \in 1..Len(z) |->
        [id |-> i, name |-> z[i].name, type |-> z[i].type, content |-> z[i].content]]

CFZones ==
    {<<>>} \cup {WithIDs(<<a>>) : a \in CFRecords}
           \cup {WithIDs(<<a, b>>) : a \in CFRecords, b \in CFRecords}

R53Zones ==
    {<<>>} \cup {<<a>> : a \in R53RecordSets}
           \cup {<<pair[1], pair[2]>> :
                   pair \in {q \in R53RecordSets \X R53RecordSets :
                                KeyOf(q[1]) < KeyOf(q[2])}}

Min(S) == CHOOSE x \in S : \A y \in S : x <= y

\* The vendor's answer to ListDNSRecords with Name and Type parameters: the
\* records that fit the parameters, or (an API that ignores them) the zone.
CFListDNSRecords(z, name, type, filtered) ==
    LET Fits(r) == r.name = name /\ r.type = type
    IN  IF filtered THEN SelectSeq(z, Fits) ELSE z

\* The vendor's answer to ListResourceRecordSets with StartRecordName,
\* StartRecordType and MaxItems 1: the first record set at or after the start.
R53ListResourceRecordSets(z, startName, startType) ==
    LET I == {i \in 1..Len(z) : KeyOf(z[i]) >= RecordKey(startName \o ".", startType)}
    IN  IF I = {} THEN <<>> ELSE <<z[Min(I)]>>

\* Variant: the loop of GetRecordIP and UpdateRecordIP compares names only.
CFFirstMatchByName(listing, c) ==
    LET I == {i \in 1..Len(listing) : listing[i].name = c.RecordName}
    IN  IF I = {} THEN 0 ELSE Min(I)

\* The loop over the listed records in CloudflareProvider.GetRecordIP and
\* UpdateRecordIP: the position of the first record with the configured name
\* and type, 0 when there is none.
CFFirstMatch(listing, c) ==
    LET I == {i \in 1..Len(listing) :
                 listing[i].name = c.RecordName /\ listing[i].type = c.RecordType}
    IN  IF I = {} THEN 0 ELSE Min(I)

\* The loop of Route53Provider.GetRecordIP: the first listed record set with
\* the configured name (plus a dot, letter case ignored) and type that has a
\* value; 0 when there is none.
R53FirstMatch(listing, c) ==
    LET I == {i \in 1..Len(listing) :
                 /\ EqualFold(listing[i].name, c.RecordName \o ".")
                 /\ listing[i].type = c.RecordType
                 /\ Len(listing[i].values) > 0}
    IN  IF I = {} THEN 0 ELSE Min(I)

\* What the loops hand on: the content of the record found, or NoRecord.
CFFound(listing, c) ==
    IF CFFirstMatch(listing, c) = 0 THEN NoRecord
    ELSE listing[CFFirstMatch(listing, c)].content

R53Found(listing, c) ==
    IF R53FirstMatch(listing, c) = 0 THEN NoRecord
    ELSE listing[R53FirstMatch(listing, c)].values[1]

\* Variant: the vendor rewrites every record with the name of the edit.
CFUpdateDNSRecordByName(z, id, name, type, ip) ==
    [i \in 1..Len(z) |->
        IF z[i].name = name THEN [z[i] EXCEPT !.content = ip] ELSE z[i]]

\* The vendor's UpdateDNSRecord for the edit {ID, Type, Name, Content}.
CFUpdateDNSRecord(z, id, name, type, ip) ==
    [i \in 1..Len(z) |->
        IF z[i].id = id
        THEN [id |-> id, name |-> name, type |-> type, content |-> ip]
        ELSE z[i]]

\* The vendor's ChangeResourceRecordSets for one UPSERT change: the record
\* set with that name and type gets the one value ip, and is created when the
\* zone has none.
R53Upsert(z, name, type, ip) ==
    LET key == RecordKey(name \o ".", type)
        Before(r) == KeyOf(r) < key
        After(r) == KeyOf(r) > key
        I == {i \in 1..Len(z) : KeyOf(z[i]) = key}
    IN  IF I # {}
        THEN [i \in 1..Len(z) |->
                 IF i \in I THEN [z[i] EXCEPT !.values = <<ip>>] ELSE z[i]]
        ELSE SelectSeq(z, Before)
               \o <<[name |-> ToLower(name \o "."), type |-> type, values |-> <<ip>>]>>
               \o SelectSeq(z, After)

\* What the vendor of adapter p lists for the adapter's request.
Listing(p, filtered) ==
    IF p = "cloudflare"
    THEN CFListDNSRecords(zone[p], adapterCfg[p].RecordName,
                          adapterCfg[p].RecordType, filtered)
    ELSE R53ListResourceRecordSets(zone[p], adapterCfg[p].RecordName,
                                   adapterCfg[p].RecordType)

Found(p, listing) ==
    IF p = "cloudflare" THEN CFFound(listing, adapterCfg[p])
    ELSE R53Found(listing, adapterCfg[p])

\* A record with the configured name and type is in the zone of p's vendor.
NameAndTypeMatch(p, r) ==
    /\ r.type = adapterCfg[p].RecordType
    /\ IF p = "cloudflare" THEN r.name = adapterCfg[p].RecordName
       ELSE EqualFold(r.name, adapterCfg[p].RecordName \o ".")

ExistsAt(p) ==
    \E i \in 1..Len(zone[p]) : NameAndTypeMatch(p, zone[p][i])

\* Only Cloudflare's list call takes parameters the vendor may ignore.
ListModes(p) == IF p = "cloudflare" THEN BOOLEAN ELSE {TRUE}

InitAdapters ==
    /\ MainParked
    /\ IPSourceAtRest
    /\ FlagsAtRest
    /\ LoggerAtRest
    /\ EnvAtRest
    /\ TwoRunsAtRest
    /\ zone \in [ProviderNames -> CFZones \cup R53Zones]
    /\ zone["cloudflare"] \in CFZones
    /\ zone["route53"] \in R53Zones
    /\ adapterCfg = AdapterConfig
    /\ adapterClient = [p \in ProviderNames |-> FALSE]
    /\ lastCall = NoCall

\* p.GetRecordIP() against the vendor's zone.
CallGetRecordIP(p) ==
    \E createOk \in BOOLEAN, listOk \in BOOLEAN, filtered \in ListModes(p) :
        LET listing == Listing(p, filtered)
            r == GetRecordIP(p, adapterClient[p], Found(p, listing), createOk, listOk)
        IN  /\ adapterClient' = [adapterClient EXCEPT ![p] = r.client]
            /\ lastCall' = [p |-> p, op |-> "GetRecordIP", ip |-> "",
                            ret |-> r.ip, err |-> r.err,
                            createOk |-> r.client, listOk |-> listOk,
                            writeOk |-> FALSE,
                            present |-> ExistsAt(p),
                            listing |-> IF r.client /\ listOk THEN listing ELSE <<>>,
                            wrote |-> FALSE]
            /\ UNCHANGED <<mainVars, ipVars, flagVars, logVars, envVars, twoVars, zone, adapterCfg>>

\* p.UpdateRecordIP(ip) against the vendor's zone.
CallUpdateRecordIP(p) ==
    \E ip \in IPs, createOk \in BOOLEAN, listOk \in BOOLEAN,
       writeOk \in BOOLEAN, filtered \in ListModes(p) :
        LET listing == Listing(p, filtered)
            c == adapterCfg[p]
            r == UpdateRecordIP(p, adapterClient[p], Found(p, listing), ip,
                                createOk, listOk, writeOk)
        IN  /\ adapterClient' = [adapterClient EXCEPT ![p] = r.client]
            /\ zone' =
                 IF ~r.wrote THEN zone
                 ELSE IF p = "cloudflare"
                 THEN [zone EXCEPT ![p] =
                         CFUpdateDNSRecord(zone[p], listing[CFFirstMatch(listing, c)].id,
                                           c.RecordName, c.RecordType, ip)]
                 ELSE [zone EXCEPT ![p] =
                         R53Upsert(zone[p], c.RecordName, c.RecordType, ip)]
            /\ lastCall' = [p |-> p, op |-> "UpdateRecordIP", ip |-> ip,
                            ret |-> "", err |-> r.err,
                            createOk |-> r.client, listOk |-> listOk,
                            writeOk |-> writeOk,
                            present |-> ExistsAt(p),
                            listing |-> IF p = "cloudflare" /\ r.client /\ listOk
                                        THEN listing ELSE <<>>,
                            wrote |-> r.wrote]
            /\ UNCHANGED <<mainVars, ipVars, flagVars, logVars, envVars, twoVars, adapterCfg>>

NextAdapters ==
    \/ \E p \in ProviderNames : CallGetRecordIP(p)
    \/ \E p \in ProviderNames : CallUpdateRecordIP(p)

SpecAdapters == InitAdapters /\ [][NextAdapters]_vars

\* An UpdateRecordIP call has just returned.
Updated == lastCall'.op = "UpdateRecordIP"

\* The record set UPSERT leaves at Route53 for the configured name and type.
Upserted(ip) ==
    [name |-> ToLower(RecordName \o "."), type |-> RecordType, values |-> <<ip>>]

\* C12 as claimed: on both adapters UpdateRecordIP returns an error and
\* issues no write when no record with the configured name and type exists
\* at the provider, and returns an error when the vendor rejects the write.
C12_Original ==
    lastCall.op = "UpdateRecordIP" =>
        /\ ~lastCall.present => (lastCall.err /\ ~lastCall.wrote)
        /\ ~lastCall.writeOk => lastCall.err

\* C12: Cloudflare's UpdateRecordIP returns an error and leaves the zone as
\* it is when no record with the configured name and type exists; Route53's
\* UpdateRecordIP does not look for the record: when none exists, the client
\* is there and the vendor accepts the change, it returns nil and the zone
\* has gained the record set with the one value ip.  On both adapters a
\* write the vendor rejects gives an error and leaves the zone as it is.
C12_UpdateWithoutRecord ==
    [][Updated =>
        LET p == lastCall'.p
        IN  /\ (p = "cloudflare" /\ ~ExistsAt(p))
                  => (lastCall'.err /\ ~lastCall'.wrote /\ zone' = zone)
            /\ (p = "route53" /\ ~ExistsAt(p) /\ lastCall'.createOk /\ lastCall'.writeOk)
                  => /\ ~lastCall'.err
                     /\ lastCall'.wrote
                     /\ Len(zone'[p]) = Len(zone[p]) + 1
                     /\ \E i \in 1..Len(zone'[p]) : zone'[p][i] = Upserted(lastCall'.ip)
            /\ ~lastCall'.writeOk => (lastCall'.err /\ zone' = zone)]_vars

\* Route53's UpdateRecordIP was called for a zone without the record and has
\* created it.
C12_Witness ==
    /\ lastCall.op = "UpdateRecordIP"
    /\ lastCall.p = "route53"
    /\ ~lastCall.present
    /\ ~lastCall.err
    /\ lastCall.wrote
    /\ \E i \in 1..Len(zone["route53"]) : zone["route53"][i] = Upserted(lastCall.ip)

\* The record of a listing that GetRecordIP is to report, and its content.
Reportable(p, r) ==
    /\ NameAndTypeMatch(p, r)
    /\ p = "route53" => Len(r.values) > 0

ContentOf(p, r) == IF p = "cloudflare" THEN r.content ELSE r.values[1]

\* C13: GetRecordIP returns the content of the (first) listed record with the
\* configured name and type, and no error, when the client is there, the list
\* call succeeds and such a record (for Route53: with a value) is listed; it
\* returns "" and an error otherwise.
C13_GetRecordIPResult ==
    lastCall.op = "GetRecordIP" =>
        LET p == lastCall.p
            l == lastCall.listing
            M == {i \in 1..Len(l) : Reportable(p, l[i])}
        IN  IF lastCall.createOk /\ lastCall.listOk /\ M # {}
            THEN ~lastCall.err /\ lastCall.ret = ContentOf(p, l[Min(M)])
            ELSE lastCall.err /\ lastCall.ret = ""

\* Route53 listed the record set under a name in other letter case and its
\* first value was returned; Cloudflare's list held a record of another type
\* before the configured one.
C13_Witness ==
    /\ lastCall.op = "GetRecordIP"
    /\ ~lastCall.err
    /\ \/ /\ lastCall.p = "route53"
          /\ lastCall.listing[1].name = "HOME.example.com."
          /\ lastCall.ret = "5.6.7.8"
       \/ /\ lastCall.p = "cloudflare"
          /\ Len(lastCall.listing) = 2
          /\ lastCall.listing[1].type = "TXT"
          /\ lastCall.ret = lastCall.listing[2].content

\* The records of a zone, without the one of the configured name and type.
Others(p, z) ==
    {z[i] : i \in {j \in 1..Len(z) : ~NameAndTypeMatch(p, z[j])}}

\* C14: a successful UpdateRecordIP(ip) leaves a record of the configured
\* name and type with content ip at the provider; the adapters'
\* configuration, the other vendors' zones and every other record of the
\* same zone are as before, and so is the rest of the program's state but for
\* the adapter's own client, which the call creates when it is the first.
C14_UpdateFrame ==
    [][(Updated /\ ~lastCall'.err) =>
        LET p == lastCall'.p
            ip == lastCall'.ip
        IN  /\ \E i \in 1..Len(zone'[p]) :
                   /\ NameAndTypeMatch(p, zone'[p][i])
                   /\ IF p = "cloudflare" THEN zone'[p][i].content = ip
                      ELSE zone'[p][i].values = <<ip>>
            /\ adapterCfg' = adapterCfg
            /\ \A q \in ProviderNames \ {p} :
                   zone'[q] = zone[q] /\ adapterClient'[q] = adapterClient[q]
            /\ Others(p, zone'[p]) = Others(p, zone[p])
            /\ IF p = "cloudflare"
               THEN /\ Len(zone'[p]) = Len(zone[p])
                    /\ Cardinality({i \in 1..Len(zone[p]) :
                                       zone'[p][i] # zone[p][i]}) <= 1
               ELSE Cardinality({i \in 1..Len(zone'[p]) :
                                    NameAndTypeMatch(p, zone'[p][i])}) = 1
            /\ adapterClient[p] => adapterClient'[p]
            /\ <<mainVars, ipVars, flagVars, logVars, envVars, twoVars>>'
                 = <<mainVars, ipVars, flagVars, logVars, envVars, twoVars>>]_vars

\* Cloudflare held two records of the configured name and type; the update
\* rewrote the first and left the second.
C14_Witness ==
    /\ lastCall.op = "UpdateRecordIP"
    /\ lastCall.p = "cloudflare"
    /\ ~lastCall.err
    /\ lastCall.ip = "5.6.7.8"
    /\ Len(zone["cloudflare"]) = 2
    /\ zone["cloudflare"][1].content = "5.6.7.8"
    /\ zone["cloudflare"][2].name = RecordName
    /\ zone["cloudflare"][2].type = RecordType
    /\ zone["cloudflare"][2].content = "1.2.3.4"
    /\ Len(zone["route53"]) = 2

\* ------------------------------------------------- main's flag handling
\* The process at the entry of main (part_001): the command line may hold
\* -version; flag.Bool has not run yet and will leave the default, false,
\* behind the pointer it returns.
InitMain ==
    /\ IPSourceAtRest
    /\ AdaptersAtRest
    /\ LoggerAtRest
    /\ EnvAtRest
    /\ TwoRunsAtRest
    /\ argVersion \in BOOLEAN
    /\ versionFlag = FALSE
    /\ versionPrinted = FALSE
    /\ pc = "main"
    /\ fileState \in FileStates
    /\ intervalStr \in IntervalStrings
    /\ blobs \in [ProviderNames -> BlobKinds]
    /\ LogFile \in LogFiles
    /\ cfg = NilCfg
    /\ sigHandler = "none"
    /\ cancelled = FALSE
    /\ reg = <<>>
    /\ lastKnown = [p \in ProviderNames |-> ""]
    /\ ticker = "none"
    /\ fires = 0
    /\ pendingFire = 0
    /\ passFire = 0
    /\ currentIP = ""
    /\ idx = 0
    /\ Client = [p \in ProviderNames |-> FALSE]
    /\ record = [p \in ProviderNames |-> NoRecord]
    /\ passCalls = <<>>
    /\ netCalls = {}
    /\ startResult = "none"
    /\ runErr = "none"
    /\ exitCode = -1
    /\ lateFires = 0

\* main: versionFlag := flag.Bool("version", false, ...) and the test of
\* *versionFlag that follows it at once.
MainVersionCheck ==
    /\ pc = "main"
    /\ IF versionFlag
       THEN /\ versionPrinted' = TRUE
            /\ exitCode' = 0
            /\ pc' = "exited"
       ELSE /\ pc' = "flag.Parse"
            /\ UNCHANGED <<versionPrinted, exitCode>>
    /\ UNCHANGED <<inputVars, ipVars, adapterVars, logVars, envVars, twoVars, argVersion,
                   versionFlag, cfg, sigHandler, cancelled, loopVars, vendorVars,
                   tickVars, startResult, runErr>>

\* main: the flag.StringVar calls and flag.Parse, which stores what the
\* command line says behind versionFlag; run is next.
MainParseFlags ==
    /\ pc = "flag.Parse"
    /\ versionFlag' = argVersion
    /\ pc' = "LoadConfig"
    /\ UNCHANGED <<inputVars, ipVars, adapterVars, logVars, envVars, twoVars, argVersion,
                   versionPrinted, cfg, sigHandler, cancelled, loopVars, vendorVars,
                   tickVars, procVars>>

\* main up to the point where the service has set up its loop or failed to.
NextMain ==
    \/ MainVersionCheck
    \/ MainParseFlags
    \/ LoadConfigStep
    \/ InitLoggerStep
    \/ Signal
    \/ StartBuild
    \/ RunReturn
    \/ MainExit

SpecMain == InitMain /\ [][NextMain]_vars

\* C15: started with -version, main prints the version line and exits with
\* status 0; it does not get as far as parsing the other flags, loading the
\* configuration or starting the service.
C15_VersionExits ==
    argVersion =>
        /\ pc \in {"main", "exited"}
        /\ pc = "exited" => (versionPrinted /\ exitCode = 0)
        /\ cfg = NilCfg
        /\ startResult = "none"
        /\ ticker = "none"

\* --------------------------------------------------------------- the logger
MaxLogCalls == 2

\* zerolog's levels.
DebugLevel == 0

InfoLevel == 1

WarnLevel == 2

ErrorLevel == 3

\* log_level strings a configuration may hold.
LevelStrings == {"debug", "DEBUG", "info", "Warn", "error", "verbose", ""}

\* The switch of InitLogger.
ParseLevel(level) ==
    CASE ToLower(level) = "debug" -> DebugLevel
      [] ToLower(level) = "info" -> InfoLevel
      [] ToLower(level) = "warn" -> WarnLevel
      [] ToLower(level) = "error" -> ErrorLevel
      [] OTHER -> InfoLevel

\* Variant: the comparison of the guards is turned round.
LevelAllowsReversed(configured, msgLevel) ==
    configured >= msgLevel

\* The guard of Debug, Info, Warn and Error.
LevelAllows(configured, msgLevel) ==
    configured <= msgLevel

\* zerolog writes an event of a level that is not below the global level (the
\* logger's own level is the lowest one).
ZerologWrites(msgLevel) == msgLevel >= globalLevel

InitLoggerUnit ==
    /\ MainParked
    /\ IPSourceAtRest
    /\ AdaptersAtRest
    /\ FlagsAtRest
    /\ EnvAtRest
    /\ TwoRunsAtRest
    /\ levelArg \in LevelStrings
    /\ logLevel = 0
    /\ globalLevel = 0
    /\ logReady = FALSE
    /\ logCalls = <<>>

notLogVars == <<mainVars, ipVars, adapterVars, flagVars, envVars, twoVars>>

\* InitLogger("", levelArg): no file to open, the level is set.
CallInitLogger ==
    /\ ~logReady
    /\ ~InitLogger("").err
    /\ logLevel' = ParseLevel(levelArg)
    /\ globalLevel' = ParseLevel(levelArg)
    /\ logReady' = TRUE
    /\ UNCHANGED <<notLogVars, levelArg, logCalls>>

\* One of the four logging functions is called with a message.
Log(fn, msgLevel) ==
    /\ logReady
    /\ Len(logCalls) < MaxLogCalls
    /\ logCalls' = Append(logCalls,
          [fn |-> fn,
           written |-> LevelAllows(logLevel, msgLevel) /\ ZerologWrites(msgLevel)])
    /\ UNCHANGED <<notLogVars, levelArg, logLevel, globalLevel, logReady>>

Debug == Log("Debug", DebugLevel)

Info == Log("Info", InfoLevel)

Warn == Log("Warn", WarnLevel)

Error == Log("Error", ErrorLevel)

NextLogger ==
    \/ CallInitLogger
    \/ Debug
    \/ Info
    \/ Warn
    \/ Error

SpecLogger == InitLoggerUnit /\ [][NextLogger]_vars

\* The order debug < info < warn < error, and the level a string configures
\* (letter case ignored, info for anything else).
LevelOrder == <<"debug", "info", "warn", "error">>

RankOf(name) == CHOOSE i \in 1..Len(LevelOrder) : LevelOrder[i] = name

ConfiguredLevel(level) ==
    IF \E i \in 1..Len(LevelOrder) : LevelOrder[i] = ToLower(level)
    THEN ToLower(level) ELSE "info"

MessageLevel(fn) ==
    CASE fn = "Debug" -> "debug"
      [] fn = "Info" -> "info"
      [] fn = "Warn" -> "warn"
      [] fn = "Error" -> "error"

\* C16: a message given to Debug, Info, Warn or Error is written exactly
\* when the configured level is at or below the level of the message in the
\* order debug < info < warn < error; Debug writes nothing when the
\* configured level is info or higher.
C16_WrittenIffLevelAllows ==
    \A i \in 1..Len(logCalls) :
        /\ logCalls[i].written
             <=> RankOf(ConfiguredLevel(levelArg)) <= RankOf(MessageLevel(logCalls[i].fn))
        /\ (logCalls[i].fn = "Debug" /\ ConfiguredLevel(levelArg) # "debug")
             => ~logCalls[i].written

\* With the level "Warn" a Debug message was dropped and an Error message
\* was written.
C16_Witness ==
    /\ levelArg = "Warn"
    /\ logCalls = <<[fn |-> "Debug", written |-> FALSE],
                    [fn |-> "Error", written |-> TRUE]>>

\* ------------------------------------------------- the states of the loop
\* The loop exists from the creation of the ticker on.
LoopStarted == ticker # "none"

\* The loop is blocked in its select.
Waiting == pc = "select"

\* The loop is running a pass.
Updating == InPass

\* Start has returned from the loop.
Terminated == AfterStart

\* The step ends a pass: the fetch failed, or the last provider is done with.
PassCompletes ==
    /\ CallStep
    /\ \/ LastCall'.op = "GetCurrentIP" /\ LastCall'.err
       \/ LastCall'.op \in ProviderOps /\ idx = Len(reg)

\* C17: from the creation of its ticker on, the loop is in exactly one of
\* the states waiting, updating and terminated.  It begins waiting; it goes
\* from waiting to updating only by taking a timer fire, from updating to
\* waiting only when the pass completes, and to terminated only from waiting
\* or updating and only when the context is cancelled; it never leaves
\* terminated.
C17_LoopStates ==
    [][ /\ LoopStarted' =>
              \/ Waiting' /\ ~Updating' /\ ~Terminated'
              \/ ~Waiting' /\ Updating' /\ ~Terminated'
              \/ ~Waiting' /\ ~Updating' /\ Terminated'
        /\ (~LoopStarted /\ LoopStarted') => Waiting'
        /\ LoopStarted =>
              /\ (Waiting /\ ~Waiting') => (Updating' \/ Terminated')
              /\ (Waiting /\ Updating') => (pendingFire # 0 /\ pendingFire' = 0)
              /\ (Updating /\ ~Updating') => (Waiting' \/ Terminated')
              /\ (Updating /\ Waiting') => PassCompletes
              /\ (~Terminated /\ Terminated') => cancelled
              /\ Terminated => Terminated' ]_vars

\* The loop has been in all three states: a pass was run, and Start has
\* returned after the cancellation.
C17_Witness ==
    /\ ticker = "stopped"
    /\ Terminated
    /\ cancelled
    /\ passFire # 0
    /\ Len(passCalls) > 1

\* ---------------------------------------------------- the order of a pass
\* C20: in the calls of a pass, GetCurrentIP is the first and the only one of
\* its kind, and provider calls follow it only when it succeeded; the
\* providers come in registry order, each with at most one GetRecordIP and one
\* UpdateRecordIP; an UpdateRecordIP directly follows the successful
\* GetRecordIP of the same provider, is made exactly when that read differs
\* from the fetched IP, and is given the fetched IP.
C20_PassOrder ==
    LET c == passCalls
        n == Len(passCalls)
    IN  n > 0 =>
          /\ c[1].op = "GetCurrentIP"
          /\ \A i \in 2..n : c[i].op \in ProviderOps
          /\ n > 1 => (~c[1].err /\ (InPass => currentIP = c[1].ret))
          /\ \A i \in 2..n : \A j \in 2..n :
                 /\ i < j => Pos(c[i].p) <= Pos(c[j].p)
                 /\ (i # j /\ c[i].p = c[j].p) => c[i].op # c[j].op
                 /\ Pos(c[i].p) > 0
          /\ \A i \in 2..n :
                 c[i].op = "UpdateRecordIP" =>
                    /\ c[i - 1].op = "GetRecordIP"
                    /\ c[i - 1].p = c[i].p
                    /\ ~c[i - 1].err
                    /\ c[i - 1].ret # c[1].ret
                    /\ c[i].arg = c[1].ret
          /\ \A i \in 2..n :
                 (c[i].op = "GetRecordIP" /\ ~c[i].err /\ c[i].ret # c[1].ret) =>
                    IF i < n
                    THEN c[i + 1].op = "UpdateRecordIP" /\ c[i + 1].p = c[i].p
                    ELSE pc = "UpdateRecordIP" /\ reg[idx] = c[i].p

\* A pass that read and rewrote both providers, in registry order.
C20_Witness ==
    /\ Len(reg) = 2
    /\ Len(passCalls) = 5
    /\ ~passCalls[1].err
    /\ passCalls[2] = Call("GetRecordIP", reg[1], "", "5.6.7.8", FALSE)
    /\ passCalls[3] = Call("UpdateRecordIP", reg[1], "1.2.3.4", "", FALSE)
    /\ passCalls[4].op = "GetRecordIP" /\ passCalls[4].p = reg[2]
    /\ passCalls[5] = Call("UpdateRecordIP", reg[2], "1.2.3.4", "", FALSE)

\* ------------------------------------------------- a stable environment
\* The process with a configuration that starts the loop: the file is read,
\* the interval is positive, the log goes to stdout and a provider is enabled.
InitRunning ==
    /\ Init
    /\ fileState = "ok"
    /\ intervalStr = "5m"
    /\ LogFile = ""
    /\ blobs \in [ProviderNames -> {"enabled", "disabled"}]
    /\ \E p \in ProviderNames : blobs[p] = "enabled"

\* From now on the public IP is publicIP, the IP source answers with it,
\* every provider call succeeds (so each registered provider has its record)
\* and nobody else changes the records.  A timer fire is still to be taken.
Stabilise ==
    /\ ~stable
    /\ InLoop
    /\ pendingFire # 0 \/ fires < MaxFires
    /\ \A k \in 1..Len(reg) : record[reg[k]] # NoRecord
    /\ stable' = TRUE
    /\ publicIP' \in IPs
    /\ UNCHANGED <<mainVars, ipVars, adapterVars, flagVars, logVars, twoVars,
                   phase, firstFire, secondFire, firstOk, firstIP>>

\* What the stable environment answers to the call just made.
AnswersWell ==
    /\ ~LastCall'.err
    /\ LastCall'.op = "GetCurrentIP" => LastCall'.ret = publicIP

\* The calls of the pass while the environment is arbitrary, and once it is
\* stable.
GetCurrentIPAnyAnswer == ~stable /\ GetCurrentIPStep

GetRecordIPAnyAnswer == ~stable /\ GetRecordIPStep

UpdateRecordIPAnyAnswer == ~stable /\ UpdateRecordIPStep

ExternalChangeBefore == ~stable /\ ExternalChange

GetCurrentIPStable == stable /\ GetCurrentIPStep /\ AnswersWell

GetRecordIPStable == stable /\ GetRecordIPStep /\ AnswersWell

UpdateRecordIPStable == stable /\ UpdateRecordIPStep /\ AnswersWell

NextStable ==
    \/ LoadConfigStep
    \/ InitLoggerStep
    \/ StartBuild
    \/ TimerFire
    \/ SelectTick
    \/ GetCurrentIPAnyAnswer
    \/ GetRecordIPAnyAnswer
    \/ UpdateRecordIPAnyAnswer
    \/ ExternalChangeBefore
    \/ Stabilise
    \/ GetCurrentIPStable
    \/ GetRecordIPStable
    \/ UpdateRecordIPStable

\* The ticker keeps firing, the goroutine of Start keeps running and the
\* calls of the stable environment return.
FairStable ==
    /\ WF_vars(TimerFire)
    /\ WF_vars(SelectTick)
    /\ WF_vars(GetCurrentIPStable)
    /\ WF_vars(GetRecordIPStable)
    /\ WF_vars(UpdateRecordIPStable)

SpecStable == InitRunning /\ [][NextStable]_vars /\ FairStable

\* Every registered provider's record holds the public IP.
AllAtPublicIP == \A k \in 1..Len(reg) : record[reg[k]] = publicIP

\* C18: once the environment is stable (the public IP stays at publicIP, the
\* source answers 200 with it, every provider call succeeds, nobody else
\* changes the records, the context is not cancelled), every registered
\* provider's record eventually equals publicIP and stays equal to it.
C18_Converges == stable ~> []AllAtPublicIP

\* The environment is stable, both providers are registered, a record that
\* held another address was rewritten and both records hold the public IP.
C18_Witness ==
    /\ stable
    /\ Len(reg) = 2
    /\ AllAtPublicIP
    /\ \E i \in 1..Len(passCalls) :
          /\ passCalls[i].op = "UpdateRecordIP"
          /\ passCalls[i].arg = publicIP
          /\ ~passCalls[i].err

\* ------------------------------------------------ two consecutive passes
\* An observer picks two consecutive passes.  While it watches, nobody else
\* changes the records; what the vendors and the IP source answer is open.
notObsVars == <<mainVars, ipVars, adapterVars, flagVars, logVars, twoVars, publicIP, stable>>

\* The pass that the pending timer fire will start is the first one watched.
MarkFirst ==
    /\ phase = 0
    /\ pc = "select"
    /\ pendingFire # 0
    /\ phase' = 1
    /\ firstFire' = pendingFire
    /\ UNCHANGED <<notObsVars, secondFire, firstOk, firstIP>>

\* The first pass is over; what it fetched and whether all its calls
\* succeeded is kept, and the pass the pending fire will start is the second.
MarkSecond ==
    /\ phase = 1
    /\ pc = "select"
    /\ passFire = firstFire
    /\ pendingFire # 0
    /\ phase' = 2
    /\ secondFire' = pendingFire
    /\ firstOk' = \A i \in 1..Len(passCalls) : ~passCalls[i].err
    /\ firstIP' = passCalls[1].ret
    /\ UNCHANGED <<notObsVars, firstFire>>

ExternalChangeUnwatched == phase = 0 /\ ExternalChange

NextPasses ==
    \/ LoadConfigStep
    \/ InitLoggerStep
    \/ StartBuild
    \/ TimerFire
    \/ SelectTick
    \/ GetCurrentIPStep
    \/ GetRecordIPStep
    \/ UpdateRecordIPStep
    \/ ExternalChangeUnwatched
    \/ MarkFirst
    \/ MarkSecond

SpecPasses == InitRunning /\ [][NextPasses]_vars

\* The second watched pass is running, every call of the first succeeded,
\* and the second has fetched (or is about to fetch) the IP of the first.
InSecondOfAlikePasses ==
    /\ phase = 2
    /\ passFire = secondFire
    /\ firstOk
    /\ \/ pc = "GetCurrentIP"
       \/ pc \in {"GetRecordIP", "UpdateRecordIP"} /\ currentIP = firstIP

\* C19: of two consecutive passes that fetch the same public IP, where every
\* call of the first succeeded and nobody else changed the records, the
\* second calls UpdateRecordIP on no provider and leaves every record and the
\* lastKnown map as they are.
C19_SecondPassIdle ==
    [][InSecondOfAlikePasses =>
          /\ record' = record
          /\ lastKnown' = lastKnown
          /\ pc' # "UpdateRecordIP"
          /\ ~(CallStep /\ LastCall'.op = "UpdateRecordIP")]_vars

\* The first pass rewrote both records, the second one fetched the same IP,
\* read both records and is over.
C19_Witness ==
    /\ phase = 2
    /\ passFire = secondFire
    /\ firstOk
    /\ pc = "select"
    /\ Len(reg) = 2
    /\ Len(passCalls) = 3
    /\ passCalls[1] = Call("GetCurrentIP", "ipsource", "", firstIP, FALSE)
    /\ passCalls[2] = Call("GetRecordIP", reg[1], "", firstIP, FALSE)
    /\ passCalls[3] = Call("GetRecordIP", reg[2], "", firstIP, FALSE)
    /\ \A k \in 1..2 : lastKnown[reg[k]] = firstIP /\ record[reg[k]] = firstIP

\* ------------------------------------------------- the service at work
\* The whole process, for the configurations that start the loop.
SpecService == InitRunning /\ [][Next]_vars

\* A pass begins with this step.
PassBegins == passFire' # passFire

\* The signal goroutine takes this step.
SignalStep == sigHandler = "waiting" /\ sigHandler' = "done"

\* C21: the calls of the update cycle are made one at a time by the loop
\* alone: a step completes at most one call, and it is the call the loop
\* stands at (for a provider call, on the provider the range loop is at); a
\* pass begins only when the loop is waiting, that is when the pass before is
\* over; the signal goroutine makes no call.
C21_OneCallAtATime ==
    [][ /\ passCalls' # passCalls => (CallStep \/ PassBegins)
        /\ CallStep =>
              /\ SubSeq(passCalls', 1, Len(passCalls)) = passCalls
              /\ LastCall'.op = pc
              /\ LastCall'.op \in ProviderOps => LastCall'.p = reg[idx]
              /\ ~PassBegins
        /\ PassBegins => (pc = "select" /\ pc' = "GetCurrentIP" /\ passCalls' = <<>>)
        /\ SignalStep => (passCalls' = passCalls /\ netCalls' = netCalls /\ pc' = pc)
      ]_vars

\* A second pass is at its second provider after a first pass that called
\* both.
C21_Witness ==
    /\ passFire >= 2
    /\ pc = "GetRecordIP"
    /\ idx = 2
    /\ Len(passCalls) >= 2
    /\ passCalls[2].p = reg[1]
    /\ netCalls = {"ipsource", "cloudflare", "route53"}

\* ------------------------------------------------- the registry in the loop
\* The providers that GetRecordIP was called on in the pass, in call order.
ReadOrder ==
    LET IsRead(c) == c.op = "GetRecordIP"
        reads == SelectSeq(passCalls, IsRead)
    IN  [i \in 1..Len(reads) |-> reads[i].p]

\* A pass that fetched the IP is over.
FetchedPassOver ==
    pc = "select" /\ Len(passCalls) > 0 /\ ~passCalls[1].err

\* C22: once Start has built the registry no step changes it, and every pass
\* that fetches the IP calls GetRecordIP on each registered provider, in
\* registry order, whatever failed in the passes before.
C22_RegistryFixed ==
    [][ /\ LoopStarted => reg' = reg
        /\ FetchedPassOver' => ReadOrder' = reg' ]_vars

\* A later pass has fetched the IP and is about to call the first provider
\* again, whose client could not be created in an earlier pass.
C22_Witness ==
    /\ passFire >= 2
    /\ pc = "GetRecordIP"
    /\ idx = 1
    /\ Len(reg) = 2
    /\ reg[1] \in netCalls
    /\ ~Client[reg[1]]

\* ------------------------------------------------- the cached vendor client
\* A method of an adapter has just returned.
AdapterCalled == lastCall'.op \in {"GetRecordIP", "UpdateRecordIP"}

\* C23: a call of GetRecordIP or UpdateRecordIP on an adapter without a
\* client either creates one and caches it or fails and leaves the cache
\* empty; a call on an adapter with a cached client keeps it and does not
\* depend on whether a client could be created now; no call touches or is
\* helped by the cache of the other adapter.
C23_ClientCache ==
    [][AdapterCalled =>
        LET p == lastCall'.p
        IN  /\ adapterClient[p] => adapterClient'[p]
            /\ (adapterClient[p] /\ lastCall'.op = "GetRecordIP"
                  /\ lastCall'.listOk /\ lastCall'.present
                  /\ (p = "route53" => Found(p, Listing(p, TRUE)) # NoRecord))
                  => ~lastCall'.err
            /\ (adapterClient[p] /\ lastCall'.op = "UpdateRecordIP"
                  /\ lastCall'.listOk /\ lastCall'.present /\ lastCall'.writeOk)
                  => (~lastCall'.err /\ lastCall'.wrote)
            /\ (~adapterClient[p] /\ ~adapterClient'[p])
                  => (lastCall'.err /\ ~lastCall'.wrote /\ lastCall'.listing = <<>>
                      /\ zone' = zone)
            /\ \A q \in ProviderNames \ {p} : adapterClient'[q] = adapterClient[q]
      ]_vars

\* Cloudflare's client could not be created and its cache is still empty,
\* while Route53's adapter has its client; Cloudflare's call failed.
C23_Witness ==
    /\ lastCall.p = "cloudflare"
    /\ lastCall.op = "GetRecordIP"
    /\ lastCall.err
    /\ lastCall.listOk
    /\ lastCall.present
    /\ ~adapterClient["cloudflare"]
    /\ adapterClient["route53"]

\* ------------------------------------------------- the last-known-IP map
\* The map as make() leaves it: no key.
EmptyMap == [p \in ProviderNames |-> ""]

\* C24: lastKnown is empty when the loop begins; a successful
\* UpdateRecordIP(ip) on a provider sets that provider's entry to ip and no
\* other step changes the map (not a failed GetRecordIP, a failed
\* UpdateRecordIP or a read that equals the fetched IP), so that an entry is
\* always the argument of the provider's latest successful UpdateRecordIP.
C24_LastKnown ==
    [][ LET UpdateSucceeds ==
                CallStep /\ LastCall'.op = "UpdateRecordIP" /\ ~LastCall'.err
        IN  /\ ~LoopStarted' => lastKnown' = EmptyMap
            /\ (~LoopStarted /\ LoopStarted') => lastKnown' = EmptyMap
            /\ UpdateSucceeds =>
                  lastKnown' = [lastKnown EXCEPT ![LastCall'.p] = LastCall'.arg]
            /\ ~UpdateSucceeds => lastKnown' = lastKnown ]_vars

\* Cloudflare's entry still holds the address written earlier although its
\* record has been changed by someone else since; Route53's update failed in
\* the latest pass and it has no entry.
C24_Witness ==
    /\ lastKnown["cloudflare"] = "1.2.3.4"
    /\ record["cloudflare"] = "5.6.7.8"
    /\ lastKnown["route53"] = ""
    /\ \E i \in 1..Len(passCalls) :
          passCalls[i] = Call("UpdateRecordIP", "route53", "1.2.3.4", "", TRUE)


\* ------------------------------------------------- two runs, same inputs
\* The loop of Start as a function of its locals.  A run is a record of
\* the locals of one Start: the position, reg.Providers, the range index,
\* currentIP, lastKnown, and with them the vendor records and cached
\* clients it works on and the calls of its current or latest pass.  Each
\* step takes what the run receives from outside (the timer fire, the
\* answer of the IP source, the answers of the vendor) as an argument.

\* The position after the provider at index i (Advance, on a run).
RunAdvance(st, i) ==
    IF i < Len(st.reg)
    THEN [st EXCEPT !.pc = "GetRecordIP", !.idx = i + 1]
    ELSE [st EXCEPT !.pc = "select", !.idx = 0]

\* case <-ticker.C.
RunTick(st) ==
    [st EXCEPT !.pc = "GetCurrentIP", !.calls = <<>>, !.currentIP = ""]

\* utils.GetCurrentIP(ipSource) and the continue on its error.
RunGetCurrentIP(st, resp) ==
    LET r == GetCurrentIP(resp)
        c == Append(st.calls, Call("GetCurrentIP", "ipsource", "", r.ip, r.err))
    IN  IF r.err
        THEN [st EXCEPT !.calls = c, !.pc = "select"]
        ELSE RunAdvance([st EXCEPT !.calls = c, !.currentIP = r.ip], 0)

\* Variant: a provider whose lastKnown entry is the fetched IP is skipped.
RunGetRecordIPSkipsKnown(st, createOk, listOk) ==
    LET p == st.reg[st.idx]
        r == GetRecordIP(p, st.Client[p], st.record[p], createOk, listOk)
        s1 == [st EXCEPT !.Client[p] = r.client,
                         !.calls = Append(st.calls, Call("GetRecordIP", p, "", r.ip, r.err))]
    IN  IF st.lastKnown[p] = st.currentIP THEN RunAdvance(st, st.idx)
        ELSE IF r.err THEN RunAdvance(s1, st.idx)
        ELSE IF NeedsUpdate(r.ip, st.currentIP)
             THEN [s1 EXCEPT !.pc = "UpdateRecordIP"]
             ELSE RunAdvance(s1, st.idx)

\* p.GetRecordIP() for the provider at idx, and the comparison.
RunGetRecordIP(st, createOk, listOk) ==
    LET p == st.reg[st.idx]
        r == GetRecordIP(p, st.Client[p], st.record[p], createOk, listOk)
        s1 == [st EXCEPT !.Client[p] = r.client,
                         !.calls = Append(st.calls, Call("GetRecordIP", p, "", r.ip, r.err))]
    IN  IF r.err THEN RunAdvance(s1, st.idx)
        ELSE IF NeedsUpdate(r.ip, st.currentIP)
             THEN [s1 EXCEPT !.pc = "UpdateRecordIP"]
             ELSE RunAdvance(s1, st.idx)

\* p.UpdateRecordIP(currentIP) and the write of lastKnown.
RunUpdateRecordIP(st, createOk, listOk, writeOk) ==
    LET p == st.reg[st.idx]
        r == UpdateRecordIP(p, st.Client[p], st.record[p], st.currentIP,
                            createOk, listOk, writeOk)
        s1 == [st EXCEPT !.Client[p] = r.client,
                         !.record[p] = r.rec,
                         !.calls = Append(st.calls,
                                          Call("UpdateRecordIP", p, st.currentIP, "", r.err))]
    IN  IF r.err THEN RunAdvance(s1, st.idx)
        ELSE RunAdvance([s1 EXCEPT !.lastKnown[p] = st.currentIP], st.idx)

\* What a run receives from outside in one step.
NoInput == [resp |-> [getErr |-> TRUE, status |-> 0, body |-> "", readErr |-> FALSE],
            createOk |-> FALSE, listOk |-> FALSE, writeOk |-> FALSE]

\* One step of a run on the input in.
RunStep(st, in) ==
    CASE st.pc = "select" -> RunTick(st)
      [] st.pc = "GetCurrentIP" -> RunGetCurrentIP(st, in.resp)
      [] st.pc = "GetRecordIP" -> RunGetRecordIP(st, in.createOk, in.listOk)
      [] st.pc = "UpdateRecordIP" ->
             RunUpdateRecordIP(st, in.createOk, in.listOk, in.writeOk)
      [] OTHER -> st

\* The registries Start can build from the providers section.
Registries ==
    {<<"cloudflare", "route53">>, <<"cloudflare">>, <<"route53">>}

\* Two Starts at the top of the loop that differ in lastKnown only.
InitTwoRuns ==
    /\ MainParked
    /\ IPSourceAtRest
    /\ AdaptersAtRest
    /\ FlagsAtRest
    /\ LoggerAtRest
    /\ EnvAtRest
    /\ \E r \in Registries,
          rec \in [ProviderNames -> IPs \cup {NoRecord}],
          mA \in [ProviderNames -> IPs \cup {""}],
          mB \in [ProviderNames -> IPs \cup {""}] :
          /\ runA = [pc |-> "select", reg |-> r, idx |-> 0, currentIP |-> "",
                     calls |-> <<>>, lastKnown |-> mA, record |-> rec,
                     Client |-> [p \in ProviderNames |-> FALSE]]
          /\ runB = [runA EXCEPT !.lastKnown = mB]

\* Both runs take the same step input.
BothStep(in) ==
    /\ runA' = RunStep(runA, in)
    /\ runB' = RunStep(runB, in)
    /\ UNCHANGED <<mainVars, ipVars, adapterVars, flagVars, logVars, envVars>>

\* The timer fires for both runs.
BothTick ==
    /\ runA.pc = "select"
    /\ BothStep(NoInput)

\* The IP source gives both runs the same answer.
BothGetCurrentIP ==
    /\ runA.pc = "GetCurrentIP"
    /\ \E resp \in Responses : BothStep([NoInput EXCEPT !.resp = resp])

\* The vendor gives both runs the same answer to GetRecordIP.
BothGetRecordIP ==
    /\ runA.pc = "GetRecordIP"
    /\ \E createOk \in BOOLEAN, listOk \in BOOLEAN :
          BothStep([NoInput EXCEPT !.createOk = createOk, !.listOk = listOk])

\* The vendor gives both runs the same answer to UpdateRecordIP.
BothUpdateRecordIP ==
    /\ runA.pc = "UpdateRecordIP"
    /\ \E createOk \in BOOLEAN, listOk \in BOOLEAN, writeOk \in BOOLEAN :
          BothStep([NoInput EXCEPT !.createOk = createOk, !.listOk = listOk,
                                   !.writeOk = writeOk])

\* Someone else changes the record at the vendor, for both runs alike.
BothExternalChange ==
    /\ runA.pc # "parked"
    /\ \E p \in ProviderNames, v \in IPs \cup {NoRecord} :
          /\ v # runA.record[p]
          /\ runA' = [runA EXCEPT !.record[p] = v]
          /\ runB' = [runB EXCEPT !.record[p] = v]
    /\ UNCHANGED <<mainVars, ipVars, adapterVars, flagVars, logVars, envVars>>

NextTwoRuns ==
    \/ BothTick
    \/ BothGetCurrentIP
    \/ BothGetRecordIP
    \/ BothUpdateRecordIP
    \/ BothExternalChange

SpecTwoRuns == InitTwoRuns /\ [][NextTwoRuns]_vars

\* C25: lastKnown never influences the loop.  Two runs that differ only in
\* the contents of the map and receive the same timer fires, IP-source
\* answers and provider answers are at the same position with the same
\* calls issued, the same records and the same clients, whatever the maps
\* hold; and a run whose pass is over has sent an update to every provider
\* whose record it read at another IP than the fetched one, even when its
\* map already holds the fetched IP for that provider.
C25_MapNeverRead ==
    LET Visible(st) ==
            [pc |-> st.pc, idx |-> st.idx, currentIP |-> st.currentIP,
             calls |-> st.calls, record |-> st.record, Client |-> st.Client]
        RunFoundStale(st) ==
            {st.calls[k].p : k \in {j \in 1..Len(st.calls) :
                /\ st.calls[j].op = "GetRecordIP"
                /\ ~st.calls[j].err
                /\ st.calls[j].ret # st.calls[1].ret}}
        RunUpdated(st) ==
            {st.calls[k].p : k \in {j \in 1..Len(st.calls) :
                st.calls[j].op = "UpdateRecordIP"}}
    IN  /\ Visible(runA) = Visible(runB)
        /\ \A st \in {runA, runB} :
              st.pc = "select" => RunFoundStale(st) = RunUpdated(st)

\* The maps of the two runs differ for cloudflare; cloudflare's record was
\* at another IP than the one both runs fetched, run A's map already held
\* the fetched IP, and both sent UpdateRecordIP to cloudflare.
C25_Witness ==
    /\ runA.pc = "select"
    /\ Len(runA.calls) >= 3
    /\ runA.calls[2] = Call("GetRecordIP", "cloudflare", "", "5.6.7.8", FALSE)
    /\ runA.calls[3] = Call("UpdateRecordIP", "cloudflare", "1.2.3.4", "", TRUE)
    /\ runA.lastKnown["cloudflare"] = "1.2.3.4"
    /\ runB.lastKnown["cloudflare"] = "5.6.7.8"
    /\ runB.calls = runA.calls


\* ------------------------------------------------- the signal goroutine
\* C26: the signal goroutine does nothing but cancel the context.  Its step
\* sets the cancellation and leaves the registry, the adapters' clients and
\* records, lastKnown, the configuration and everything else of the process
\* as they were; and cfg is never written once LoadConfig has returned.
C26_SignalOnlyCancels ==
    [][ /\ SignalStep =>
              /\ cancelled'
              /\ UNCHANGED <<pc, inputVars, cfg, loopVars, vendorVars, tickVars,
                             procVars, unitVars>>
        /\ pc # "LoadConfig" => cfg' = cfg ]_vars

\* The signal has arrived in the middle of a pass, after an update, and the
\* pass goes on with its registry and map.
C26_Witness ==
    /\ sigHandler = "done"
    /\ cancelled
    /\ pc = "GetRecordIP"
    /\ idx = 2
    /\ lastKnown["cloudflare"] = currentIP
    /\ currentIP # ""
    /\ Len(passCalls) = 3


\* ------------------------------------------------------ before the first fire
\* C27: no pass runs at startup.  As long as the timer has not fired, no
\* call has been made to the IP source or to any provider, the loop is not
\* in a pass and no fire is pending; and when Start has come back from the
\* loop without a fire, it returned nil and no network call was ever made.
C27_NoPassAtStartup ==
    fires = 0 =>
        /\ netCalls = {}
        /\ passCalls = <<>>
        /\ ~Updating
        /\ pendingFire = 0
        /\ passFire = 0
        /\ (LoopStarted /\ pc = "StartReturned") => (cancelled /\ startResult = "nil")

\* The context was cancelled before the first fire: Start has returned nil
\* with the registry built, the ticker stopped and no call made.
C27_Witness ==
    /\ fires = 0
    /\ cancelled
    /\ pc = "StartReturned"
    /\ startResult = "nil"
    /\ ticker = "stopped"
    /\ Len(reg) = 2
    /\ netCalls = {}


\* ------------------------------------------- blobs missing or undecodable
\* C28: a provider whose blob is missing or cannot be decoded is left out of
\* the registry like a disabled one.  Once Start is past the registry, such a
\* provider is not in it; when the other provider is enabled, the registry
\* holds just that one and Start has not returned an error; when the other
\* provider is not enabled, the registry is empty and Start has returned
\* the no-providers error.
C28_BadBlobLeftOut ==
    StartBuilt =>
        \A p \in ProviderNames : blobs[p] \in {"missing", "undecodable"} =>
            /\ \A k \in 1..Len(reg) : reg[k] # p
            /\ \A q \in ProviderNames \ {p} :
                  /\ blobs[q] = "enabled" => (reg = <<q>> /\ startResult # "err")
                  /\ blobs[q] # "enabled" => (reg = <<>> /\ startResult = "err")

\* cloudflare's blob cannot be decoded, route53 is enabled, and the loop
\* waits with a registry of route53 alone.
C28_Witness ==
    /\ blobs["cloudflare"] = "undecodable"
    /\ blobs["route53"] = "enabled"
    /\ pc = "select"
    /\ ticker = "running"
    /\ reg = <<"route53">>


\* ------------------------------------------------- intervals not positive
\* C29: for every configuration LoadConfig accepts and that enables at least
\* one provider, Start creates the ticker and reaches the waiting state
\* without crashing, whatever interval LoadConfig accepted, a zero or
\* negative one included.
C29_TickerForEveryInterval ==
    (StartBuilt /\ ~NoProviderEnabled) =>
        /\ pc # "panicked"
        /\ LoopStarted
        /\ exitCode # 2


\* ------------------------------------------------------- fires during a pass
\* C30: timer fires are not queued.  ticker.C holds at most one fire, one
\* that the loop has not yet received; a fire that finds it full is dropped;
\* a pass begins by taking the held fire and leaves none behind, so however
\* many fires a long pass saw, one pass at most begins after it without a
\* new fire; and each pass is started by a later fire than the pass before
\* it, so that no more passes are started than the timer has fired.
C30_OneFireHeld ==
    [][ /\ pendingFire' # 0 => (passFire' < pendingFire' /\ pendingFire' <= fires')
        /\ passFire' <= fires'
        /\ (fires' # fires /\ pendingFire # 0) => pendingFire' = pendingFire
        /\ (fires' # fires /\ pendingFire = 0) => pendingFire' = fires'
        /\ PassBegins => /\ pendingFire # 0
                         /\ passFire' = pendingFire
                         /\ passFire' > passFire
                         /\ pendingFire' = 0
        /\ (fires' = fires /\ ~PassBegins) => pendingFire' = pendingFire ]_vars

\* The first pass saw two more fires; the second pass, started by the one
\* that was held, is over and the loop waits with nothing pending.
C30_Witness ==
    /\ fires = 3
    /\ passFire = 2
    /\ pendingFire = 0
    /\ pc = "select"
    /\ Len(passCalls) >= 1

====
